---- MODULE Spec2Model ----
(***************************************************************************)
(* WhatsApp <-> Asterisk voice gateway: the call-signaling state machine   *)
(* (WhatsAppClient, CallHandler), the orchestrator (CallBridge) and the    *)
(* media relay (MediaBridge, StunClient) as one state machine.             *)
(*                                                                         *)
(* Scheduling model (Node.js, single threaded): a handler runs without     *)
(* interruption up to the point where it waits for something outside the   *)
(* process: the completion of a websocket send (sock.sendNode), the UDP    *)
(* socket's 'listening' event, a timer, the SIP answer.  An await of an    *)
(* async function that itself waits for nothing (StunClient.start,         *)
(* MediaBridge.initialize) resumes in the same turn, so no event handler   *)
(* runs in between.  One action of the model is one such turn.             *)
(***************************************************************************)
EXTENDS Integers, Sequences, FiniteSets, TLC

\* ------------------------------------------------------------------ bounds

\* Offers ('call' events with status offer) handled in one run; an offer for a
\* call id that is already known is a repeated offer.
MaxOffers == 1
\* Invocations of the public CallHandler.acceptCall besides those of bridgeCall.
MaxApiAccepts == 1
\* Invocations of the public CallHandler.endCall.
MaxEndCalls == 1
\* Counters of emitted events and socket operations saturate at this value.
CountCap == 2

\* Transport stanzas handled in one run.
MaxTransports == 1

\* The call ids that stanzas carry; the platform offers only those of OfferIds
CallIds == {"c1", "c9"}
OfferIds == {"c1"}
Insts == 1..MaxOffers
AcceptFlows == 1..(MaxOffers + MaxApiAccepts)
TransportFlows == 1..MaxTransports

\* ------------------------------------------------------------- the inputs

NoToken == "none"
Relay(ip, port, token) == [ip |-> ip, port |-> port, token |-> token]
RelayA == Relay("10.0.0.1", 3478, "tokA")
RelayB == Relay("10.0.0.2", 3479, NoToken)

ByteSeq(n) == [i \in 1..n |-> i]

\* The decrypted offer attached to a CallEvent: absent (the sniffer cache had
\* none), or the decoded protobuf shape {call: {callKey, relays}}.
\* A decrypted offer is cached with _stanzaId, the id of the offer's stanza.
OfferStanzaId == "offer-stanza"
OfferAbsent == [present |-> FALSE, callKey |-> <<>>, relays |-> <<>>, raw |-> FALSE,
                enc |-> <<>>, stanzaId |-> ""]
OfferShortKey == [present |-> TRUE, callKey |-> ByteSeq(29), relays |-> <<RelayA>>,
                  raw |-> FALSE, enc |-> <<>>, stanzaId |-> OfferStanzaId]
OfferOneRelay == [present |-> TRUE, callKey |-> ByteSeq(32), relays |-> <<RelayA>>,
                  raw |-> FALSE, enc |-> <<>>, stanzaId |-> OfferStanzaId]
OfferTwoRelays == [present |-> TRUE, callKey |-> ByteSeq(30), relays |-> <<RelayA, RelayB>>,
                   raw |-> FALSE, enc |-> <<>>, stanzaId |-> OfferStanzaId]
Offers == {OfferAbsent, OfferShortKey, OfferOneRelay, OfferTwoRelays}
\* The raw offer node, which the sniffer caches before it decrypts and which
\* stays in the cache when the decryption fails: no call, no _stanzaId; a te
\* element with its token and the enc element with the ciphertext
OfferRaw == [present |-> FALSE, callKey |-> <<>>, relays |-> <<RelayA>>, raw |-> TRUE,
             enc |-> [i \in 1..32 |-> 100 + i], stanzaId |-> ""]
CachedOffers == Offers \cup {OfferRaw}

Endpoints == {<<RelayA.ip, RelayA.port>>, <<RelayB.ip, RelayB.port>>}

\* The JID an offer comes from (CallEvent.from): a user JID with its device part
OfferFrom == "5511:7@s.whatsapp.net"

\* jidNormalizedUser (Baileys): the JID without its device part; of the JIDs in
\* use here only the offer's has one
jidNormalizedUser(jid) == IF jid = "5511:7@s.whatsapp.net" THEN "5511@s.whatsapp.net" ELSE jid

\* sock.generateMessageTag(): an id of the gateway's own making, which is none
\* of the ids the platform's stanzas carry
GeneratedTag == "generated"

\* private publicInfo: {ip, port} | null = null
NoPublicInfo == [ip |-> "", port |-> 0]
\* The endpoints that rte elements carry
NoRte == [ip |-> "", port |-> 0]
Rte1 == [ip |-> "203.0.113.5", port |-> 40000]
Rte2 == [ip |-> "203.0.113.9", port |-> 40002]
\* config.network.publicIp and config.rtp.portMin, by default
ConfigPublicIp == "127.0.0.1"
ConfigPortMin == 10000

\* extractRteFromOffer: the address of the first relay of offer.call.relays
extractRteFromOffer(offer) ==
    IF offer.present /\ Len(offer.relays) > 0
    THEN [ip |-> offer.relays[1].ip, port |-> offer.relays[1].port]
    ELSE NoRte

\* WhatsAppClient.sendTransportResponse, the cand element: publicInfo?.ip or
\* else the configured address, publicInfo?.port or else the configured port
sendTransportResponse(info) ==
    [ip |-> IF info.ip # "" THEN info.ip ELSE ConfigPublicIp,
     port |-> IF info.port # 0 THEN info.port ELSE ConfigPortMin]

\* --------------------------------------------------------------- the state

VARIABLES
    callSpec,       \* per offered call id: what the platform's offer holds (isVideo, offer)
    lastStatus,     \* per call id: the status of the last 'call' event handled for it
    decryptedOffers, \* WhatsAppClient.decryptedOffers: call id -> cached offer
    nOffers,        \* offers handled so far (also the last MediaBridge instance made)
    nApi,           \* public acceptCall invocations so far
    nEnd,           \* public endCall invocations so far
    nTr,            \* call stanzas without offer handled so far
    callState,      \* WhatsAppClient.callState: call id -> state object (0: no entry)
    stateObj,       \* the state objects: {gotTransport, gotRelay, accepted}
    activeCalls,    \* CallHandler.activeCalls: the call ids with an entry
    sent,           \* per call id: the call stanzas handed to the socket (counts, first sends)
    acks,           \* the ack stanzas handed to the socket
    hPc,            \* per offer: CallHandler's 'call:offer' listener
    wPc,            \* per offer: WhatsAppClient's offer branch after emit('call:offer')
    bPc,            \* per offer: CallBridge.bridgeCall
    mPc,            \* per offer: the SIPClient.makeCall of bridgeCall
    inst,           \* per offer: its call id
    acc,            \* the accept flows (WhatsAppClient.acceptCall activations): that of
                    \* bridgeCall for offer i is flow i, the others follow
    endPc,          \* per call id: CallHandler.endCall activations waiting for their TERMINATE send
    tr,             \* the call stanzas on their way through sniffer and handlers
    activeBridges,  \* CallBridge.activeBridges: call id -> instance (0: no entry)
    mediaBridge,    \* per instance: the MediaBridge object
    stunSocket,     \* per instance: StunClient.socket is set
    stunTx,         \* per instance: Binding Requests sent, by endpoint
    emitted,        \* per instance: 'bridge:created' / 'bridge:ended' emitted, socket closes
    globalTransportToken, \* CallBridge.globalTransportToken
    nominate,       \* the pending USE-CANDIDATE timers of CallBridge
    publicInfo,     \* WhatsAppClient.publicInfo: the public address set, or none
    accepted,       \* per call id: CallHandler 'call:accepted' emitted
    lastOut,        \* per instance: what the relay did with the last datagram or silence tick
    mediaSeen,      \* per instance: media datagrams handled so far, by leg
    rtpOut,         \* one MediaBridge's outbound RTP numbering: outSeq, silence started,
                    \* the sequence number of the last packet built (-1: none)
    stunReq,        \* the last call of StunClient.sendBindingRequest: its arguments and
                    \* the datagram it handed to the socket
    demuxed,        \* the last datagram MediaBridge.demux saw: its first byte, where it went
    extracted,      \* the last call of extractSrtpKeys: the offer and what was returned
    callEvents      \* the activations of the 'call' event listener up to emit('call:offer'):
                    \* their batches and positions, the sniffer's cache, what was emitted

vars == <<callSpec, lastStatus, decryptedOffers, nOffers, nApi, nEnd, nTr, callState, stateObj, activeCalls,
          sent, acks, hPc, wPc, bPc, mPc, inst, acc, endPc, tr, activeBridges,
          mediaBridge, stunSocket, stunTx, emitted, globalTransportToken, nominate,
          publicInfo, accepted, lastOut, mediaSeen, rtpOut, stunReq,
          demuxed, extracted, callEvents>>

\* groups of variables that the actions leave alone together
unitVars == <<rtpOut, stunReq, demuxed, extracted, callEvents>>
evVars == <<lastStatus, decryptedOffers>>
cntVars == <<callSpec, unitVars, evVars, nOffers, nApi, nEnd, nTr>>
sigVars == <<callState, stateObj, activeCalls, sent, acks, accepted>>
pcVars == <<hPc, wPc, bPc, mPc, inst, acc, endPc, tr>>
brVars == <<activeBridges, mediaBridge, stunSocket, stunTx, emitted>>
trVars == <<globalTransportToken, nominate, publicInfo>>
pktVars == <<lastOut, mediaSeen>>

SatInc(n) == IF n < CountCap THEN n + 1 ELSE n

\* ------------------------------------------------------------ MediaBridge

NoRelay == [ip |-> "", port |-> 0, token |-> NoToken, username |-> "", callCreator |-> ""]
NoKeys == [masterKey |-> <<>>, masterSalt |-> <<>>]

\* new MediaBridge({localPort, asteriskHost, asteriskRtpPort: 0})
NewMediaBridge ==
    [udpSocket |-> "null", srtpSession |-> FALSE, authKeys |-> NoKeys,
     activeRelay |-> NoRelay, keepAlive |-> FALSE, silenceInterval |-> FALSE,
     relayEndpoints |-> <<>>, asteriskRtpPort |-> 0]

\* MediaBridge.stopSilence
stopSilence(m) == [m EXCEPT !.silenceInterval = FALSE]

\* MediaBridge.startSilence: a second call while the interval is set returns
startSilence(m) == [m EXCEPT !.silenceInterval = TRUE]

\* MediaBridge.start, at the socket's 'listening' event
listening(m) == [m EXCEPT !.udpSocket = "bound", !.keepAlive = TRUE]

\* MediaBridge.initialize
initialize(m, keys) ==
    [m EXCEPT !.authKeys = [masterKey |-> keys.masterKey, masterSalt |-> keys.masterSalt],
              !.srtpSession = TRUE]

\* MediaBridge.updateRelays
updateRelays(m, relays) == [m EXCEPT !.relayEndpoints = relays]

\* MediaBridge.stop: stopSilence, clearInterval(keepAlive), udpSocket?.close()
stop(m) ==
    [stopSilence(m) EXCEPT !.keepAlive = FALSE,
                           !.udpSocket = IF m.udpSocket = "null" THEN "null" ELSE "closed"]

\* ------------------------------------------------------------ key extractor

\* extractKeysFromDecryptedProto: callKey of at least 30 bytes gives
\* masterKey = bytes 0..15 and masterSalt = bytes 16..29
extractKeysFromDecryptedProto(offer) ==
    IF offer.present /\ Len(offer.callKey) >= 30
    THEN [found |-> TRUE, masterKey |-> SubSeq(offer.callKey, 1, 16),
          masterSalt |-> SubSeq(offer.callKey, 17, 30)]
    ELSE [found |-> FALSE, masterKey |-> <<>>, masterSalt |-> <<>>]

\* extractSrtpKeys on an offer of the decoded protobuf shape: the relays of
\* offer.call.relays, the keys of the proto helper; null without keys. On the
\* raw offer node the traversal takes the relays of the te elements and, as
\* the key blob, the content of the enc element if it has 30 bytes or more
extractSrtpKeys(offer) ==
    LET k == IF offer.raw
             THEN IF Len(offer.enc) >= 30
                  THEN [found |-> TRUE, masterKey |-> SubSeq(offer.enc, 1, 16),
                        masterSalt |-> SubSeq(offer.enc, 17, 30)]
                  ELSE [found |-> FALSE, masterKey |-> <<>>, masterSalt |-> <<>>]
             ELSE extractKeysFromDecryptedProto(offer)
    IN  [found |-> k.found, masterKey |-> k.masterKey, masterSalt |-> k.masterSalt,
         relayEndpoints |-> IF k.found THEN offer.relays ELSE <<>>]

\* --------------------------------------------------------------- StunClient

RECURSIVE sendBindingRequests(_, _, _)
\* StunClient.sendBindingRequest for each relay of a list, in order: nothing is
\* sent while the client has no socket
sendBindingRequests(tx, hasSocket, relays) ==
    IF relays = <<>> \/ ~hasSocket THEN tx
    ELSE LET r == Head(relays)
             e == <<r.ip, r.port>>
         IN  sendBindingRequests([tx EXCEPT ![e] = SatInc(@)], hasSocket, Tail(relays))

\* -------------------------------------------------------------------- Init

\* The kinds of call stanza the gateway sends
Kinds == {"ringing", "receipt", "reject", "preaccept", "accept", "ready", "terminate",
          "transport", "relaylatency"}

NoSent == [n |-> [k \in Kinds |-> 0], first |-> <<>>, nodes |-> {}, ok |-> {}]
NoObj == [gotTransport |-> FALSE, gotRelay |-> FALSE, accepted |-> FALSE]
NoFlow == [call |-> "", pc |-> "idle", obj |-> 0]
NoEmit == [created |-> 0, ended |-> 0, closes |-> 0]
NoOut == [evt |-> "none", inPt |-> 0, out |-> "none", pt |-> 0, ip |-> "", port |-> 0]
NoMedia == [ast |-> FALSE, wa |-> FALSE]
NoNode == [id |-> 0, from |-> "", callId |-> "", item |-> "none", relays |-> <<>>,
           token |-> NoToken, children |-> <<>>, rte |-> NoRte]
\* out: the relaylatency stanzas sent for the stanza so far, idx: the child the
\* last of them answers, cand: the address of the transport response sent
NoStanza == [pc |-> "idle", node |-> NoNode, out |-> <<>>, idx |-> 0, cand |-> NoRte]

\* MediaBridge's numbering fields at construction: outSeq = 0, no silence yet
NewRtpOut == [outSeq |-> 0, silenceStarted |-> FALSE, lastSeq |-> -1]

\* an argument that may be undefined: a username (string) or a token (Buffer)
Undefined == [defined |-> FALSE, bytes |-> <<>>]
Bytes(b) == [defined |-> TRUE, bytes |-> b]

\* The activations of the 'call' event listener, and the call events of a
\* batch: an offer or a timeout of a call id
EvHandlers == 1..2
CallEventSet == [id : CallIds, status : {"offer", "timeout"}]
Batches == {<<e>> : e \in CallEventSet} \cup {<<e1, e2>> : e1, e2 \in CallEventSet}
NoHandler == [batch |-> <<>>, pos |-> 0, pc |-> "idle", attempts |-> 0]
\* cached: decryptedOffers.has(id); emitted: 'call:offer' emitted for the id, with
\* or without offer; state: callState.get(id), none or the object just made
NoCallEvents ==
    [h |-> [x \in EvHandlers |-> NoHandler],
     cached |-> [c \in CallIds |-> FALSE],
     emitted |-> [c \in CallIds |-> "none"],
     state |-> [c \in CallIds |-> "none"]]

\* extractSrtpKeys not called yet
NoExtract == [done |-> FALSE, shape |-> "none", proto |-> OfferAbsent, node |-> <<>>,
              result |-> [found |-> FALSE, masterKey |-> <<>>, masterSalt |-> <<>>,
                          relayEndpoints |-> <<>>]]

\* no datagram received yet
NoDatagram == [seen |-> FALSE, first |-> 0, len |-> 0, type |-> 0, path |-> "none",
               outcome |-> "none"]

\* no Binding Request built yet
NoStunReq ==
    [built |-> FALSE, username |-> Undefined, token |-> Undefined, useCandidate |-> FALSE,
     transactionId |-> 0,
     packet |-> [header |-> [type |-> 0, length |-> 0, cookie |-> 0, transactionId |-> 0],
                 attrs |-> <<>>]]

\* The gateway after construction, before any event
InitGateway ==
    /\ callSpec \in [OfferIds -> [isVideo : BOOLEAN, offer : CachedOffers]]
    /\ lastStatus = [c \in CallIds |-> "none"]
    /\ decryptedOffers = [c \in CallIds |-> OfferAbsent]
    /\ nOffers = 0
    /\ nApi = 0
    /\ nEnd = 0
    /\ nTr = 0
    /\ callState = [c \in CallIds |-> 0]
    /\ stateObj = [i \in Insts |-> NoObj]
    /\ activeCalls = {}
    /\ sent = [c \in CallIds |-> NoSent]
    /\ acks = {}
    /\ hPc = [i \in Insts |-> "idle"]
    /\ wPc = [i \in Insts |-> "idle"]
    /\ bPc = [i \in Insts |-> "idle"]
    /\ mPc = [i \in Insts |-> "idle"]
    /\ inst = [i \in Insts |-> ""]
    /\ acc = [f \in AcceptFlows |-> NoFlow]
    /\ endPc = [c \in CallIds |-> 0]
    /\ tr = [k \in TransportFlows |-> NoStanza]
    /\ activeBridges = [c \in CallIds |-> 0]
    /\ mediaBridge = [i \in Insts |-> NewMediaBridge]
    /\ stunSocket = [i \in Insts |-> FALSE]
    /\ stunTx = [i \in Insts |-> [e \in Endpoints |-> 0]]
    /\ emitted = [i \in Insts |-> NoEmit]
    /\ globalTransportToken = NoToken
    /\ publicInfo = NoPublicInfo
    /\ nominate = {}
    /\ accepted = [c \in CallIds |-> 0]
    /\ lastOut = [i \in Insts |-> NoOut]
    /\ mediaSeen = [i \in Insts |-> NoMedia]

Init ==
    /\ InitGateway
    /\ rtpOut = NewRtpOut
    /\ stunReq = NoStunReq
    /\ demuxed = NoDatagram
    /\ extracted = NoExtract
    /\ callEvents = NoCallEvents

\* One stanza of a kind handed to the socket: counted, put down in the order of
\* the first sends, and kept with its attributes to and id
logged(s, kind, to, id) ==
    [n |-> [s.n EXCEPT ![kind] = SatInc(@)],
     first |-> IF s.n[kind] = 0 THEN Append(s.first, kind) ELSE s.first,
     nodes |-> s.nodes \cup {[kind |-> kind, to |-> to, id |-> id]},
     ok |-> s.ok]

\* sock.sendNode has resolved for a stanza of a kind
resolved(s, kind) == [s EXCEPT !.ok = @ \cup {kind}]

\* A call stanza with an id of generateMessageTag
Send(c, kind, to) == sent' = [sent EXCEPT ![c] = logged(@, kind, to, GeneratedTag)]

offered(c) == \E i \in 1..nOffers : inst[i] = c

\* --------------------------------------------------------------- CallBridge

\* endBridge as it would be if it left the entry in the registry: the variant
\* that C7 must tell from the code
endBridgeKeepEntry(c) ==
    LET b == activeBridges[c]
    IN  IF b # 0
        THEN /\ mediaBridge' = [mediaBridge EXCEPT ![b] = stop(@)]
             /\ stunSocket' = [stunSocket EXCEPT ![b] = FALSE]
             /\ emitted' = [emitted EXCEPT
                    ![b].ended = SatInc(@),
                    ![b].closes = IF mediaBridge[b].udpSocket = "null" THEN @ ELSE SatInc(@)]
             /\ UNCHANGED <<activeBridges, stunTx>>
        ELSE UNCHANGED brVars

\* CallBridge.endBridge: with an entry for the call id, stop its relay and its
\* STUN client, delete the entry and emit 'bridge:ended'; without one, nothing
endBridge(c) ==
    LET b == activeBridges[c]
    IN  IF b # 0
        THEN /\ mediaBridge' = [mediaBridge EXCEPT ![b] = stop(@)]
             /\ stunSocket' = [stunSocket EXCEPT ![b] = FALSE]
             /\ activeBridges' = [activeBridges EXCEPT ![c] = 0]
             /\ emitted' = [emitted EXCEPT
                    ![b].ended = SatInc(@),
                    ![b].closes = IF mediaBridge[b].udpSocket = "null" THEN @ ELSE SatInc(@)]
             /\ UNCHANGED stunTx
        ELSE UNCHANGED brVars

\* ----------------------------------------------------- the offer ('call' event)

\* WhatsAppClient, 'call' event with status offer (from callState.set on), the
\* cache holding what the sniffer stored for the offer's stanza, and what
\* emit('call:offer') runs before anything waits: CallHandler stores the
\* call and emits 'call:incoming', CallBridge.bridgeCall makes and registers the
\* relay and starts binding its socket, CallHandler sends RINGING, and so does
\* WhatsAppClient after the emit.
Offer(c) ==
    /\ nOffers < MaxOffers
    /\ LET i == nOffers + 1
       IN  /\ nOffers' = i
           /\ inst' = [inst EXCEPT ![i] = c]
           /\ lastStatus' = [lastStatus EXCEPT ![c] = "offer"]
           /\ decryptedOffers' = [decryptedOffers EXCEPT ![c] = callSpec[c].offer]
           /\ publicInfo' = IF extractRteFromOffer(callSpec[c].offer) # NoRte
                            THEN extractRteFromOffer(callSpec[c].offer) ELSE publicInfo
           /\ callState' = [callState EXCEPT ![c] = i]
           /\ stateObj' = [stateObj EXCEPT ![i] = NoObj]
           /\ activeCalls' = activeCalls \cup {c}
           /\ mediaBridge' = [mediaBridge EXCEPT ![i] = NewMediaBridge]
           /\ stunSocket' = [stunSocket EXCEPT ![i] = FALSE]
           /\ activeBridges' = [activeBridges EXCEPT ![c] = i]
           /\ bPc' = [bPc EXCEPT ![i] = "bind"]
           /\ sent' = [sent EXCEPT ![c] = logged(logged(@, "ringing", OfferFrom, GeneratedTag),
                                                    "ringing", OfferFrom, GeneratedTag)]
           /\ hPc' = [hPc EXCEPT ![i] = "ringing"]
           /\ wPc' = [wPc EXCEPT ![i] = "ringing"]
    /\ UNCHANGED <<callSpec, unitVars, nApi, nEnd, nTr, acks, mPc, acc, endPc, tr, stunTx,
                   emitted, globalTransportToken, nominate, accepted, pktVars>>

\* WhatsAppClient.sendCallReceipt: the receipt's id is the _stanzaId of the
\* offer the cache holds for the call at that time, or else a generated tag
sendCallReceipt(to, c) ==
    sent' = [sent EXCEPT ![c] = logged(@, "receipt", to,
                                       IF decryptedOffers[c].stanzaId # ""
                                       THEN decryptedOffers[c].stanzaId
                                       ELSE GeneratedTag)]

\* CallHandler 'call:offer' listener, RINGING sent: send the receipt
HandlerRingingSent(i) ==
    /\ hPc[i] = "ringing"
    /\ sendCallReceipt(OfferFrom, inst[i])
    /\ hPc' = [hPc EXCEPT ![i] = "receipt"]
    /\ UNCHANGED <<cntVars, callState, stateObj, activeCalls, acks, accepted,
                   wPc, bPc, mPc, inst, acc, endPc, tr, brVars, trVars, pktVars>>

\* CallHandler 'call:offer' listener, receipt sent: a video call is rejected
\* (CallHandler.rejectCall -> WhatsAppClient.rejectCall -> sock.rejectCall)
HandlerReceiptSent(i) ==
    /\ hPc[i] = "receipt"
    /\ IF callSpec[inst[i]].isVideo
       THEN /\ Send(inst[i], "reject", OfferFrom)
            /\ hPc' = [hPc EXCEPT ![i] = "reject"]
       ELSE /\ hPc' = [hPc EXCEPT ![i] = "done"]
            /\ UNCHANGED sent
    /\ UNCHANGED <<cntVars, callState, stateObj, activeCalls, acks, accepted,
                   wPc, bPc, mPc, inst, acc, endPc, tr, brVars, trVars, pktVars>>

\* CallHandler.rejectCall after the reject was sent: the call leaves
\* activeCalls and 'call:rejected' is emitted (nothing listens to it)
HandlerRejectSent(i) ==
    /\ hPc[i] = "reject"
    /\ activeCalls' = activeCalls \ {inst[i]}
    /\ hPc' = [hPc EXCEPT ![i] = "done"]
    /\ UNCHANGED <<cntVars, callState, stateObj, sent, acks, accepted,
                   wPc, bPc, mPc, inst, acc, endPc, tr, brVars, trVars, pktVars>>

\* WhatsAppClient offer branch, its RINGING sent: send its receipt
ClientRingingSent(i) ==
    /\ wPc[i] = "ringing"
    /\ sendCallReceipt(OfferFrom, inst[i])
    /\ wPc' = [wPc EXCEPT ![i] = "done"]
    /\ UNCHANGED <<cntVars, callState, stateObj, activeCalls, acks, accepted,
                   hPc, bPc, mPc, inst, acc, endPc, tr, brVars, trVars, pktVars>>

\* ------------------------------------------------------------ the accept flow

\* WhatsAppClient.acceptCall up to its first wait, as CallHandler.acceptCall
\* calls it: with the state's accepted flag set it returns at once (and
\* CallHandler emits 'call:accepted'); else PREACCEPT is sent and the flow f,
\* which keeps the state object it read, waits for the send and the settling delay
acceptCall(c, f) ==
    LET o == callState[c]
    IN  IF o # 0 /\ stateObj[o].accepted
        THEN /\ accepted' = [accepted EXCEPT ![c] = SatInc(@)]
             /\ UNCHANGED <<sent, acc>>
        ELSE /\ Send(c, "preaccept", OfferFrom)
             /\ acc' = [acc EXCEPT ![f] = [call |-> c, pc |-> "settle", obj |-> o]]
             /\ UNCHANGED accepted

\* WhatsAppClient.acceptCall after the settling delay: send ACCEPT, whose to is
\* jidNormalizedUser(from)
AcceptSettled(f) ==
    /\ acc[f].pc = "settle"
    /\ sent' = [sent EXCEPT ![acc[f].call] =
                    logged(resolved(@, "preaccept"), "accept",
                           jidNormalizedUser(OfferFrom), GeneratedTag)]
    /\ acc' = [acc EXCEPT ![f].pc = "accept"]
    /\ UNCHANGED <<cntVars, callState, stateObj, activeCalls, acks, accepted,
                   hPc, wPc, bPc, mPc, inst, endPc, tr, brVars, trVars, pktVars>>

\* WhatsAppClient.acceptCall, ACCEPT sent: sendReady
AcceptSent(f) ==
    /\ acc[f].pc = "accept"
    /\ sent' = [sent EXCEPT ![acc[f].call] =
                    logged(resolved(@, "accept"), "ready", OfferFrom, GeneratedTag)]
    /\ acc' = [acc EXCEPT ![f].pc = "ready"]
    /\ UNCHANGED <<cntVars, callState, stateObj, activeCalls, acks, accepted,
                   hPc, wPc, bPc, mPc, inst, endPc, tr, brVars, trVars, pktVars>>

\* WhatsAppClient.acceptCall once sendReady has returned: the state object read
\* at the start is marked accepted and put (back) into callState;
\* 'call:accepted' is emitted
markAccepted(f) ==
    LET c == acc[f].call
        o == acc[f].obj
    IN  /\ IF o # 0
           THEN /\ stateObj' = [stateObj EXCEPT ![o].accepted = TRUE]
                /\ callState' = [callState EXCEPT ![c] = o]
           ELSE UNCHANGED <<stateObj, callState>>
        /\ accepted' = [accepted EXCEPT ![c] = SatInc(@)]

\* WhatsAppClient.acceptCall, READY sent: sendReady returns
ReadySent(f) ==
    /\ acc[f].pc = "ready"
    /\ markAccepted(f)
    /\ sent' = [sent EXCEPT ![acc[f].call] = resolved(@, "ready")]
    /\ acc' = [acc EXCEPT ![f].pc = "done"]
    /\ UNCHANGED <<cntVars, activeCalls, acks,
                   hPc, wPc, bPc, mPc, inst, endPc, tr, brVars, trVars, pktVars>>

\* The send of PREACCEPT fails: sendPreaccept throws, and so do
\* WhatsAppClient.acceptCall and CallHandler.acceptCall; bridgeCall ignores it
PreacceptFailed(f) ==
    /\ acc[f].pc = "settle"
    /\ acc' = [acc EXCEPT ![f].pc = "threw"]
    /\ UNCHANGED <<cntVars, sigVars, hPc, wPc, bPc, mPc, inst, endPc, tr, brVars,
                   trVars, pktVars>>

\* The send of ACCEPT fails: WhatsAppClient.acceptCall throws
AcceptFailed(f) ==
    /\ acc[f].pc = "accept"
    /\ acc' = [acc EXCEPT ![f].pc = "threw"]
    /\ UNCHANGED <<cntVars, sigVars, hPc, wPc, bPc, mPc, inst, endPc, tr, brVars,
                   trVars, pktVars>>

\* The send of READY fails: sendReady catches and logs the error and returns
\* as if it had sent
ReadyFailed(f) ==
    /\ acc[f].pc = "ready"
    /\ markAccepted(f)
    /\ acc' = [acc EXCEPT ![f].pc = "done"]
    /\ UNCHANGED <<cntVars, activeCalls, sent, acks,
                   hPc, wPc, bPc, mPc, inst, endPc, tr, brVars, trVars, pktVars>>

\* CallHandler.acceptCall(callId) called from outside the bridge, without from:
\* a call id that is not in activeCalls is refused
ApiAcceptCall(c) ==
    /\ nApi < MaxApiAccepts
    /\ offered(c)
    /\ nApi' = nApi + 1
    /\ IF c \in activeCalls
       THEN acceptCall(c, MaxOffers + nApi + 1)
       ELSE UNCHANGED <<sent, acc, accepted>>
    /\ UNCHANGED <<callSpec, unitVars, evVars, nOffers, nEnd, nTr, callState, stateObj, activeCalls, acks,
                   hPc, wPc, bPc, mPc, inst, endPc, tr, brVars, trVars, pktVars>>

\* ------------------------------------------------------ CallBridge.bridgeCall

\* relaysWithAuth as it would be without the username: the variant that C4 must
\* tell from the code
relaysUntagged(relays, c) ==
    [k \in 1..Len(relays) |->
        [ip |-> relays[k].ip, port |-> relays[k].port, token |-> relays[k].token,
         username |-> "", callCreator |-> ""]]

\* relaysWithAuth: the relays of the offer, tagged with the call id as username
relaysWithAuth(relays, c) ==
    [k \in 1..Len(relays) |->
        [ip |-> relays[k].ip, port |-> relays[k].port, token |-> relays[k].token,
         username |-> c, callCreator |-> ""]]

\* bridgeCall from the socket's 'listening' event on: the STUN client gets the
\* socket; with keys SRTP is initialised, the relays are set, one Binding
\* Request goes to each and silence starts; then 'bridge:created', the accept
\* flow and the SIP call.  What endBridge did meanwhile is not looked at.
BridgeListening(i) ==
    /\ bPc[i] = "bind"
    /\ LET c == inst[i]
           keys == extractSrtpKeys(callSpec[c].offer)
           m1 == listening(mediaBridge[i])
           rs == relaysWithAuth(keys.relayEndpoints, c)
           m2 == IF keys.found
                 THEN startSilence(updateRelays(initialize(m1, keys), rs))
                 ELSE m1
       IN  /\ mediaBridge' = [mediaBridge EXCEPT ![i] = m2]
           /\ stunSocket' = [stunSocket EXCEPT ![i] = TRUE]
           /\ stunTx' = [stunTx EXCEPT ![i] =
                            IF keys.found THEN sendBindingRequests(@, TRUE, rs) ELSE @]
           /\ emitted' = [emitted EXCEPT ![i].created = SatInc(@)]
           /\ acceptCall(c, i)
    /\ bPc' = [bPc EXCEPT ![i] = "done"]
    /\ mPc' = [mPc EXCEPT ![i] = "pending"]
    /\ UNCHANGED <<cntVars, callState, stateObj, activeCalls, acks, hPc, wPc, inst, endPc,
                   tr, activeBridges, trVars, pktVars>>

\* The port of the SDP answer that 'call:established' carries
AnsweredRtpPort == 10000

\* SIPClient.makeCall answered 2xx: 'call:established' makes CallBridge pass the
\* answered port to the relay of every registered bridge with that session id
\* (the session id is made from the call id)
MakeCallAnswered(i) ==
    /\ mPc[i] = "pending"
    /\ mPc' = [mPc EXCEPT ![i] = "established"]
    /\ LET b == activeBridges[inst[i]]
       IN  IF b # 0
           THEN mediaBridge' = [mediaBridge EXCEPT ![b].asteriskRtpPort = AnsweredRtpPort]
           ELSE UNCHANGED mediaBridge
    /\ UNCHANGED <<cntVars, sigVars, hPc, wPc, bPc, inst, acc, endPc, tr,
                   activeBridges, stunSocket, stunTx, emitted, trVars, pktVars>>

\* SIPClient.makeCall rejected: bridgeCall's catch ends the bridge of the call id
MakeCallFailed(i) ==
    /\ mPc[i] = "pending"
    /\ mPc' = [mPc EXCEPT ![i] = "failed"]
    /\ endBridge(inst[i])
    /\ UNCHANGED <<cntVars, sigVars, hPc, wPc, bPc, inst, acc, endPc, tr,
                   trVars, pktVars>>

\* SIPClient.makeCall, the INVITE with credentials answered 401 or 407 again:
\* handleResponse logs it and neither resolves nor rejects, so bridgeCall's
\* catch never runs
MakeCallAuthRefused(i) ==
    /\ mPc[i] = "pending"
    /\ mPc' = [mPc EXCEPT ![i] = "refused"]
    /\ UNCHANGED <<cntVars, sigVars, hPc, wPc, bPc, inst, acc, endPc, tr,
                   brVars, trVars, pktVars>>

\* SIPClient.handleRequest, BYE for an active dialog: 'call:terminated' is
\* emitted; CallBridge has no listener for it
SipBye(i) ==
    /\ mPc[i] = "established"
    /\ mPc' = [mPc EXCEPT ![i] = "terminated"]
    /\ UNCHANGED <<cntVars, sigVars, hPc, wPc, bPc, inst, acc, endPc, tr,
                   brVars, trVars, pktVars>>

\* ------------------------------------------------ call status events (platform)

\* 'call' event with status timeout, reject or accept: WhatsAppClient drops
\* the cached offer and the call's state
cleanup(c, status) ==
    /\ lastStatus' = [lastStatus EXCEPT ![c] = status]
    /\ decryptedOffers' = [decryptedOffers EXCEPT ![c] = OfferAbsent]
    /\ callState' = [callState EXCEPT ![c] = 0]

\* 'call' event with status timeout: WhatsAppClient drops the call's state and
\* emits 'call:timeout'; CallHandler drops the call and emits 'call:ended';
\* CallBridge ends the bridge
StatusTimeout(c) ==
    /\ offered(c)
    /\ cleanup(c, "timeout")
    /\ activeCalls' = activeCalls \ {c}
    /\ endBridge(c)
    /\ UNCHANGED <<callSpec, unitVars, nOffers, nApi, nEnd, nTr, stateObj, sent, acks,
                   accepted, pcVars, trVars, pktVars>>

\* 'call' event with status reject: WhatsAppClient drops the call's state and
\* emits 'call:reject'; CallHandler drops the call and emits 'call:rejected',
\* which CallBridge does not listen to
StatusReject(c) ==
    /\ offered(c)
    /\ cleanup(c, "reject")
    /\ activeCalls' = activeCalls \ {c}
    /\ UNCHANGED <<callSpec, unitVars, nOffers, nApi, nEnd, nTr, stateObj, sent, acks,
                   accepted, pcVars, brVars, trVars, pktVars>>

\* 'call' event with status accept: WhatsAppClient drops the call's state and
\* emits 'call:accept'; CallHandler only logs
StatusAccept(c) ==
    /\ offered(c)
    /\ cleanup(c, "accept")
    /\ UNCHANGED <<callSpec, unitVars, nOffers, nApi, nEnd, nTr, stateObj, activeCalls,
                   sent, acks, accepted, pcVars, brVars, trVars, pktVars>>

\* 'call' event with status terminate: no branch of the handler takes it, so
\* nothing is dropped and nothing is emitted
StatusTerminate(c) ==
    /\ offered(c)
    /\ lastStatus' = [lastStatus EXCEPT ![c] = "terminate"]
    /\ UNCHANGED <<callSpec, unitVars, decryptedOffers, nOffers, nApi, nEnd, nTr,
                   sigVars, pcVars, brVars, trVars, pktVars>>

\* ---------------------------------------------------------- CallHandler.endCall

\* CallHandler.endCall(callId): with the call in activeCalls TERMINATE is sent
\* and waited for; without it the call is ended at once
EndCall(c) ==
    /\ nEnd < MaxEndCalls
    /\ offered(c)
    /\ nEnd' = nEnd + 1
    /\ IF c \in activeCalls
       THEN /\ Send(c, "terminate", OfferFrom)
            /\ endPc' = [endPc EXCEPT ![c] = @ + 1]
            /\ UNCHANGED <<activeCalls, brVars>>
       ELSE /\ endBridge(c)
            /\ UNCHANGED <<activeCalls, sent, endPc>>
    /\ UNCHANGED <<callSpec, unitVars, evVars, nOffers, nApi, nTr, callState, stateObj, acks, accepted,
                   hPc, wPc, bPc, mPc, inst, acc, tr, trVars, pktVars>>

\* CallHandler.endCall, TERMINATE sent (or its send failed, which is caught):
\* the call leaves activeCalls, 'call:ended' is emitted, CallBridge ends the bridge
EndCallSent(c) ==
    /\ endPc[c] > 0
    /\ endPc' = [endPc EXCEPT ![c] = @ - 1]
    /\ activeCalls' = activeCalls \ {c}
    /\ endBridge(c)
    /\ UNCHANGED <<cntVars, callState, stateObj, sent, acks, accepted,
                   hPc, wPc, bPc, mPc, inst, acc, tr, trVars, pktVars>>

\* ------------------------------------------------------------------- timers

hasRelay(r) == r.ip # ""

\* MediaBridge.poke, the 2 s keep-alive: Binding Requests to the active relay,
\* else to the first known relay: with its token and, with keys, with the
\* master key; the same again under the call creator's name if it has one
poke(i) ==
    LET m == mediaBridge[i]
        target == IF hasRelay(m.activeRelay) THEN <<m.activeRelay>>
                  ELSE IF m.relayEndpoints # <<>> THEN <<m.relayEndpoints[1]>>
                  ELSE <<>>
        one == IF m.authKeys # NoKeys THEN target \o target ELSE target
        reqs == IF target # <<>> /\ target[1].callCreator # "" THEN one \o one ELSE one
    IN  sendBindingRequests(stunTx[i], stunSocket[i], reqs)

KeepAliveTick(i) ==
    /\ mediaBridge[i].keepAlive
    /\ stunTx' = [stunTx EXCEPT ![i] = poke(i)]
    /\ UNCHANGED <<cntVars, sigVars, pcVars, activeBridges, mediaBridge,
                   stunSocket, emitted, trVars, pktVars>>

\* MediaBridge.sendRtp: what happens to one outbound packet.  Without an active
\* relay it is dropped; without SRTP session or usable socket nothing is sent;
\* else it goes, with a payload type of 111, 0, 8 or 96 (any other becomes 111),
\* to the active relay
sendRtp(m, evt, inPt, payloadType) ==
    IF ~hasRelay(m.activeRelay) \/ ~m.srtpSession \/ m.udpSocket # "bound"
    THEN [evt |-> evt, inPt |-> inPt, out |-> "dropped", pt |-> 0, ip |-> "", port |-> 0]
    ELSE [evt |-> evt, inPt |-> inPt, out |-> "toWhatsApp",
          pt |-> IF payloadType \in {111, 0, 8, 96} THEN payloadType ELSE 111,
          ip |-> m.activeRelay.ip, port |-> m.activeRelay.port]

\* The silence interval's callback, every 20 ms: one Opus silence frame
SilenceTick(i) ==
    /\ mediaBridge[i].silenceInterval
    /\ lastOut' = [lastOut EXCEPT ![i] =
                      IF mediaBridge[i].srtpSession
                      THEN sendRtp(mediaBridge[i], "silence", 111, 111)
                      ELSE [NoOut EXCEPT !.evt = "silence", !.out = "dropped"]]
    /\ UNCHANGED <<cntVars, sigVars, pcVars, brVars, trVars, mediaSeen>>

\* ---------------------------------------------------------------- datagrams

AsteriskHost == "192.168.0.10"
AsteriskSrc == [ip |-> AsteriskHost, port |-> 4000]
RelaySrc == [ip |-> RelayA.ip, port |-> RelayA.port]
StrangerSrc == [ip |-> "10.9.9.9", port |-> 5000]
Sources == {AsteriskSrc, RelaySrc, StrangerSrc}
\* first byte 0..3 (STUN) or an RTP packet
DatagramClasses == {"stun", "rtp"}
\* the payload types the telephony leg sends (PCMU, PCMA)
TelephonyPts == {0, 8}

\* forwardToWhatsApp as it would be without its stopSilence: the variant that
\* C6 must tell from the code
forwardKeepSilence(m, inPt) ==
    [m |-> m,
     out |-> IF ~m.srtpSession
             THEN [NoOut EXCEPT !.evt = "telephony", !.inPt = inPt, !.out = "dropped"]
             ELSE sendRtp(m, "telephony", inPt, 111)]

\* MediaBridge.forwardToWhatsApp: silence stops; with an SRTP session the
\* payload goes out through sendRtp with payload type 111
forwardToWhatsApp(m, inPt) ==
    LET m1 == stopSilence(m)
    IN  [m |-> m1,
         out |-> IF ~m1.srtpSession
                 THEN [NoOut EXCEPT !.evt = "telephony", !.inPt = inPt, !.out = "dropped"]
                 ELSE sendRtp(m1, "telephony", inPt, 111)]

\* find as it would be if it took the first known relay whatever its address:
\* the variant that C26 must tell from the code
findFirst(relays, src) == IF relays = <<>> THEN NoRelay ELSE Head(relays)

RECURSIVE find(_, _)
\* relayEndpoints.find(r => r.ip === rinfo.address && r.port === rinfo.port)
find(relays, src) ==
    IF relays = <<>> THEN NoRelay
    ELSE IF Head(relays).ip = src.ip /\ Head(relays).port = src.port THEN Head(relays)
    ELSE find(Tail(relays), src)

\* MediaBridge.handleMedia: a datagram of the telephony host teaches the port
\* (if none is known) and is forwarded; any other is decrypted, and if that
\* works its sender becomes the active relay and the packet goes, as payload
\* type 111, to the telephony host
handleMedia(m, src, inPt, valid) ==
    IF src.ip = AsteriskHost
    THEN forwardToWhatsApp(
             [m EXCEPT !.asteriskRtpPort = IF @ = 0 THEN src.port ELSE @], inPt)
    ELSE IF m.srtpSession /\ valid
    THEN LET knownRelay == find(m.relayEndpoints, src)
         IN  [m |-> [m EXCEPT !.activeRelay =
                        [ip |-> src.ip, port |-> src.port, token |-> knownRelay.token,
                         username |-> knownRelay.username, callCreator |-> ""]],
              out |-> [evt |-> "platform", inPt |-> inPt,
                       out |-> IF m.asteriskRtpPort = 0 \/ m.udpSocket # "bound"
                               THEN "dropped" ELSE "toAsterisk",
                       pt |-> 111, ip |-> AsteriskHost, port |-> m.asteriskRtpPort]]
    ELSE [m |-> m, out |-> [NoOut EXCEPT !.evt = "platform", !.inPt = inPt, !.out = "dropped"]]

\* MediaBridge.demux: the socket's 'message' event.  A first byte of 0..3 goes
\* to StunClient.handleMessage, which only logs; anything else is media
Datagram(i, src, class, inPt, valid) ==
    /\ mediaBridge[i].udpSocket = "bound"
    /\ IF class = "stun"
       THEN /\ lastOut' = [lastOut EXCEPT ![i] = [NoOut EXCEPT !.evt = "stun"]]
            /\ UNCHANGED <<mediaBridge, mediaSeen>>
       ELSE LET r == handleMedia(mediaBridge[i], src, inPt, valid)
            IN  /\ mediaBridge' = [mediaBridge EXCEPT ![i] = r.m]
                /\ lastOut' = [lastOut EXCEPT ![i] = r.out]
                /\ mediaSeen' = [mediaSeen EXCEPT ![i] =
                                    IF src.ip = AsteriskHost THEN [@ EXCEPT !.ast = TRUE]
                                    ELSE [@ EXCEPT !.wa = TRUE]]
    /\ UNCHANGED <<cntVars, sigVars, pcVars, activeBridges, stunSocket, stunTx,
                   emitted, trVars>>

\* ------------------------------------------------- call stanzas without offer

Senders == {"5511@s.whatsapp.net", "5522@lid"}

\* The content of a call stanza: none at all, one transport item or one
\* relaylatency item; an item holds te children (relay endpoints, with a token
\* when their content has more than six bytes) and possibly a token child
\* A child of an item: its tag and its content ("" when it has none)
Child(tag, content) == [tag |-> tag, content |-> content]
TeA == Child("te", "bytesA")
TeB == Child("te", "bytesB")
Contents ==
    { [item |-> "none", relays |-> <<>>, token |-> NoToken, children |-> <<>>, rte |-> NoRte],
      [item |-> "transport", relays |-> <<RelayB>>, token |-> NoToken, children |-> <<TeB>>,
         rte |-> NoRte],
      [item |-> "transport", relays |-> <<RelayB>>, token |-> "tokG",
         children |-> <<TeB, Child("token", "tokG")>>, rte |-> NoRte],
      [item |-> "transport", relays |-> <<RelayB>>, token |-> NoToken,
         children |-> <<TeB, Child("rte", "bytesRte1")>>, rte |-> Rte1],
      [item |-> "rte", relays |-> <<>>, token |-> NoToken, children |-> <<>>, rte |-> Rte2],
      [item |-> "relaylatency", relays |-> <<RelayA>>, token |-> NoToken, children |-> <<TeA>>,
         rte |-> NoRte],
      [item |-> "relaylatency", relays |-> <<RelayA, RelayB>>, token |-> NoToken,
         children |-> <<TeA, TeB>>, rte |-> NoRte],
      [item |-> "relaylatency", relays |-> <<RelayB>>, token |-> NoToken,
         children |-> <<Child("te", ""), Child("te2", "bytesA"), Child("enc", "bytesC"), TeB>>,
         rte |-> NoRte] }

\* new Uint8Array([0, 0, 0, 0, 0, 0]), the content sendRelaylatency puts in
\* place of a token that is not there
ZeroToken == "000000"

\* sendRelaylatency called without relayInfo: the variant that C31 must tell
\* from the code
sendRelaylatencyDefault(te) == [latency |-> "10", content |-> ZeroToken]

\* WhatsAppClient.sendRelaylatency: the te element of the stanza, with
\* relayInfo = {relay_name, latency: '10', token: te.content}
sendRelaylatency(te) ==
    [latency |-> "10", content |-> IF te.content # "" THEN te.content ELSE ZeroToken]

\* for (const te of teNodes) if (te.tag === 'te' || te.tag === 'te2'): the next
\* child after idx that is answered, 0 if there is none
nextTe(children, idx) ==
    LET later == {j \in (idx + 1)..Len(children) : children[j].tag \in {"te", "te2"}}
    IN  IF later = {} THEN 0 ELSE CHOOSE j \in later : \A j2 \in later : j <= j2

\* An ack that does not name the stanza it answers: the variant that C20 must
\* tell from the code
sendCallAckUncorrelated(node) ==
    [id |-> 0, to |-> node.from, class |-> "call",
     type |-> IF node.item = "none" THEN "" ELSE node.item]

\* WhatsAppClient.sendCallAck: the ack of a call stanza; the type is the tag of
\* the first content item, if the content is a list
sendCallAck(node) ==
    [id |-> node.id, to |-> node.from, class |-> "call",
     type |-> IF node.item = "none" THEN "" ELSE node.item]

\* extractRelaysFromTransport: the endpoints of the te children; a token child
\* gives the global token, which the relays without token take
extractRelaysFromTransport(node) ==
    [relays |-> [k \in 1..Len(node.relays) |->
                    [node.relays[k] EXCEPT !.token =
                        IF @ = NoToken THEN node.token ELSE @]],
     globalToken |-> node.token]

RECURSIVE firstToken(_)
\* currentRelays.find(r => r.token)?.token
firstToken(relays) ==
    IF relays = <<>> THEN NoToken
    ELSE IF Head(relays).token # NoToken THEN Head(relays).token
    ELSE firstToken(Tail(relays))

\* The merge of CallBridge's 'call:transport' listener for one bridge: every new
\* relay keeps its token, else takes that of the known relay with its address,
\* else the fallback; its username is the call id of the stanza's first item
mergedRelays(newRelays, currentRelays, node, global, bridgeCallId, bridgeFrom) ==
    LET fallbackToken == IF firstToken(currentRelays) # NoToken
                         THEN firstToken(currentRelays) ELSE global
    IN  [k \in 1..Len(newRelays) |->
            LET nr == newRelays[k]
                existing == find(currentRelays, nr)
            IN  [ip |-> nr.ip, port |-> nr.port,
                 token |-> IF nr.token # NoToken THEN nr.token
                           ELSE IF existing.token # NoToken THEN existing.token
                           ELSE fallbackToken,
                 username |-> IF node.item # "none" /\ node.callId # "" THEN node.callId
                              ELSE IF existing.username # "" THEN existing.username
                              ELSE bridgeCallId,
                 callCreator |-> bridgeFrom]]

\* the relays that get a Binding Request and a nomination timer
nominated(relays) == SelectSeq(relays, LAMBDA r : r.token # NoToken /\ r.username # "")

\* CallBridge's 'call:transport' listener: the global token is kept, and every
\* registered bridge gets the merged relays (if there are any), a Binding
\* Request to each with token and username, and a timer for its nomination
bridgeTransport(node) ==
    LET x == extractRelaysFromTransport(node)
        global == IF x.globalToken # NoToken THEN x.globalToken ELSE globalTransportToken
        active == {b \in Insts : \E c \in CallIds : activeBridges[c] = b}
        merged(b) == mergedRelays(x.relays, mediaBridge[b].relayEndpoints, node, global,
                                  inst[b], OfferFrom)
    IN  /\ globalTransportToken' = global
        /\ mediaBridge' = [b \in Insts |->
               IF b \in active /\ merged(b) # <<>>
               THEN updateRelays(mediaBridge[b], merged(b)) ELSE mediaBridge[b]]
        /\ stunTx' = [b \in Insts |->
               IF b \in active
               THEN sendBindingRequests(stunTx[b], stunSocket[b], nominated(merged(b)))
               ELSE stunTx[b]]
        /\ nominate' = nominate \cup UNION
               {{[b |-> b, ip |-> nominated(merged(b))[k].ip,
                  port |-> nominated(merged(b))[k].port] :
                     k \in 1..Len(nominated(merged(b)))} : b \in active}
        /\ UNCHANGED <<activeBridges, stunSocket, emitted>>

\* The access to the call's state as it would be without `if (state)`: the
\* variant that C10 must tell from the code
markStateUnguarded(objs, o, field) ==
    [threw |-> o = 0,
     objs |-> IF o # 0 THEN [objs EXCEPT ![o][field] = TRUE] ELSE objs]

\* WhatsAppClient.handleTransportMessage, the access to the call's state: behind
\* `if (state)`, so that a call id without state changes nothing and throws nothing
markState(objs, o, field) ==
    [threw |-> FALSE,
     objs |-> IF o # 0 THEN [objs EXCEPT ![o][field] = TRUE] ELSE objs]

\* The sniffer ('CB:call') gets a call stanza that holds no offer: it sends the
\* ack before anything else and waits for the send
CallStanza(from, c, content) ==
    /\ nTr < MaxTransports
    /\ LET k == nTr + 1
           node == [id |-> k, from |-> from, callId |-> c, item |-> content.item,
                    relays |-> content.relays, token |-> content.token,
                    children |-> content.children, rte |-> content.rte]
       IN  /\ nTr' = k
           /\ acks' = acks \cup {sendCallAck(node)}
           /\ tr' = [tr EXCEPT ![k] = [NoStanza EXCEPT !.pc = "sniffer", !.node = node]]
    /\ UNCHANGED <<callSpec, unitVars, evVars, nOffers, nApi, nEnd, callState, stateObj, activeCalls,
                   sent, accepted, hPc, wPc, bPc, mPc, inst, acc, endPc, brVars, trVars,
                   pktVars>>

\* The sniffer's ack is sent: 'call:transport' reaches CallHandler, which calls
\* handleTransportMessage.  Without content that returns at once, and CallHandler
\* passes the event on to CallBridge; with content it sends an ack and waits
SnifferAcked(k) ==
    /\ tr[k].pc = "sniffer"
    /\ IF tr[k].node.item = "none"
       THEN /\ bridgeTransport(tr[k].node)
            /\ tr' = [tr EXCEPT ![k].pc = "done"]
            /\ UNCHANGED <<acks, publicInfo>>
       ELSE /\ acks' = acks \cup {sendCallAck(tr[k].node)}
            /\ tr' = [tr EXCEPT ![k].pc = "acked"]
            /\ UNCHANGED <<brVars, trVars>>
    /\ UNCHANGED <<cntVars, callState, stateObj, activeCalls, sent, accepted,
                   hPc, wPc, bPc, mPc, inst, acc, endPc, pktVars>>

\* handleTransportMessage, its ack sent: the item marks the call's state (if
\* there is one) and is answered: a transport item by a transport response, a
\* relaylatency item by a relaylatency stanza for its first te or te2 child.
\* With no such child, and for an rte item, whose endpoint becomes the public
\* address, handleTransportMessage returns, and CallHandler passes the event
\* on to CallBridge
HandlerAcked(k) ==
    /\ tr[k].pc = "acked"
    /\ LET node == tr[k].node
           r == IF node.item = "rte" THEN [threw |-> FALSE, objs |-> stateObj]
                ELSE markState(stateObj, callState[node.callId],
                          IF node.item = "transport" THEN "gotTransport" ELSE "gotRelay")
           j == nextTe(node.children, 0)
       IN  IF r.threw
           THEN /\ tr' = [tr EXCEPT ![k].pc = "threw"]
                /\ UNCHANGED <<stateObj, sent, brVars, trVars>>
           ELSE /\ stateObj' = r.objs
                /\ IF node.item = "transport"
                   THEN /\ Send(node.callId, node.item, node.from)
                        /\ tr' = [tr EXCEPT ![k].pc = "responded",
                                     ![k].cand = sendTransportResponse(publicInfo)]
                        /\ UNCHANGED <<brVars, trVars>>
                   ELSE IF node.item = "relaylatency" /\ j # 0
                   THEN /\ Send(node.callId, node.item, node.from)
                        /\ tr' = [tr EXCEPT ![k].pc = "responded", ![k].idx = j,
                                     ![k].out = Append(@, sendRelaylatency(node.children[j]))]
                        /\ UNCHANGED <<brVars, trVars>>
                   ELSE /\ bridgeTransport(node)
                        /\ publicInfo' = IF node.item = "rte" /\ node.rte # NoRte
                                         THEN node.rte ELSE publicInfo
                        /\ tr' = [tr EXCEPT ![k].pc = "done"]
                        /\ UNCHANGED sent
    /\ UNCHANGED <<cntVars, callState, activeCalls, acks, accepted,
                   hPc, wPc, bPc, mPc, inst, acc, endPc, pktVars>>

\* handleTransportMessage, an answer sent: a relaylatency item's next te or te2
\* child is answered; after a transport response the endpoint of the item's rte
\* child becomes the public address; after the last answer
\* handleTransportMessage returns, and CallHandler passes the event on to
\* CallBridge
Responded(k) ==
    /\ tr[k].pc = "responded"
    /\ LET node == tr[k].node
           j == nextTe(node.children, tr[k].idx)
       IN  IF node.item = "relaylatency" /\ j # 0
           THEN /\ Send(node.callId, node.item, node.from)
                /\ tr' = [tr EXCEPT ![k].idx = j,
                             ![k].out = Append(@, sendRelaylatency(node.children[j]))]
                /\ UNCHANGED <<callState, stateObj, activeCalls, acks, accepted,
                               brVars, trVars>>
           ELSE /\ bridgeTransport(node)
                /\ publicInfo' = IF node.item = "transport" /\ node.rte # NoRte
                                 THEN node.rte ELSE publicInfo
                /\ tr' = [tr EXCEPT ![k].pc = "done"]
                /\ UNCHANGED sigVars
    /\ UNCHANGED <<cntVars, hPc, wPc, bPc, mPc, inst, acc, endPc, pktVars>>

\* A nomination timer of CallBridge (100 ms): the USE-CANDIDATE Binding Request
Nominate(t) ==
    /\ t \in nominate
    /\ nominate' = nominate \ {t}
    /\ stunTx' = [stunTx EXCEPT ![t.b] = sendBindingRequests(@, stunSocket[t.b], <<t>>)]
    /\ UNCHANGED <<cntVars, sigVars, pcVars, activeBridges, mediaBridge,
                   stunSocket, emitted, globalTransportToken, publicInfo, pktVars>>

\* ---------------------------------------------------------- specifications
\* The flows of a call are independent activities: each specification takes the
\* offer and the bridge set-up together with one group of them.

\* The stanza flows: the offer listeners, the accept flow and the status events.
NextSignaling ==
    \/ \E c \in OfferIds : Offer(c)
    \/ \E i \in Insts : HandlerRingingSent(i)
    \/ \E i \in Insts : HandlerReceiptSent(i)
    \/ \E i \in Insts : HandlerRejectSent(i)
    \/ \E i \in Insts : ClientRingingSent(i)
    \/ \E i \in Insts : BridgeListening(i)
    \/ \E f \in AcceptFlows : AcceptSettled(f)
    \/ \E f \in AcceptFlows : AcceptSent(f)
    \/ \E f \in AcceptFlows : ReadySent(f)
    \/ \E f \in AcceptFlows : PreacceptFailed(f)
    \/ \E f \in AcceptFlows : AcceptFailed(f)
    \/ \E f \in AcceptFlows : ReadyFailed(f)
    \/ \E c \in OfferIds : ApiAcceptCall(c)
    \/ \E c \in OfferIds : StatusTimeout(c)
    \/ \E c \in OfferIds : StatusReject(c)
    \/ \E c \in OfferIds : StatusAccept(c)

\* The stanza flows do not look at what the offer holds besides isVideo and
\* the _stanzaId of the cached offer
InitSignaling == Init /\ \A c \in OfferIds : callSpec[c].offer \in {OfferOneRelay, OfferRaw}

Spec == InitSignaling /\ [][NextSignaling]_vars

\* The bridges do not look at isVideo
InitAudio == Init /\ \A c \in OfferIds : ~callSpec[c].isVideo

\* The life of the bridges: set-up, the SIP leg, the ends of a call.
NextBridge ==
    \/ \E c \in OfferIds : Offer(c)
    \/ \E i \in Insts : BridgeListening(i)
    \/ \E i \in Insts : MakeCallAnswered(i)
    \/ \E i \in Insts : MakeCallFailed(i)
    \/ \E i \in Insts : MakeCallAuthRefused(i)
    \/ \E i \in Insts : SipBye(i)
    \/ \E c \in OfferIds : StatusTimeout(c)
    \/ \E c \in OfferIds : StatusReject(c)
    \/ \E c \in OfferIds : StatusTerminate(c)
    \/ \E c \in OfferIds : EndCall(c)
    \/ \E c \in OfferIds : EndCallSent(c)

SpecBridge == InitAudio /\ [][NextBridge]_vars

\* The first offer of a run
FirstOffer(c) == nOffers = 0 /\ Offer(c)

\* One relay, its timers and its datagrams.
NextMedia ==
    \/ \E c \in OfferIds : FirstOffer(c)
    \/ \E i \in Insts : BridgeListening(i)
    \/ \E i \in Insts : MakeCallAnswered(i)
    \/ \E c \in OfferIds : StatusTimeout(c)
    \/ \E i \in Insts : KeepAliveTick(i)
    \/ \E i \in Insts : SilenceTick(i)
    \/ \E i \in Insts, src \in Sources, class \in DatagramClasses, pt \in TelephonyPts,
          valid \in BOOLEAN : Datagram(i, src, class, pt, valid)

SpecMedia == InitAudio /\ [][NextMedia]_vars

\* The call stanzas that hold no offer, with one bridge.
NextTransport ==
    \/ \E c \in OfferIds : FirstOffer(c)
    \/ \E i \in Insts : BridgeListening(i)
    \/ \E c \in OfferIds : StatusTimeout(c)
    \/ \E from \in Senders, c \in CallIds, content \in Contents : CallStanza(from, c, content)
    \/ \E k \in TransportFlows : SnifferAcked(k)
    \/ \E k \in TransportFlows : HandlerAcked(k)
    \/ \E k \in TransportFlows : Responded(k)
    \/ \E t \in nominate : Nominate(t)

SpecTransport == InitAudio /\ [][NextTransport]_vars

\* ------------------------------------------- the outbound RTP sequence number

\* One audio call with keys: the setting of the objects looked at on their own
InitUnit == Init /\ \A c \in OfferIds : callSpec[c] = [isVideo |-> FALSE, offer |-> OfferOneRelay]

\* Math.floor(Math.random() * 0xFFFF)
randomOutSeq == 0..(65535 - 1)

\* sendRtp: this.outSeq = (this.outSeq + 1) % 65535
nextOutSeq(outSeq) == (outSeq + 1) % 65535

\* MediaBridge.startSilence, called once for a bridge: an outSeq of 0 is
\* replaced by a random start
SeqStartSilence ==
    /\ ~rtpOut.silenceStarted
    /\ IF rtpOut.outSeq = 0
       THEN \E r \in randomOutSeq :
               rtpOut' = [rtpOut EXCEPT !.silenceStarted = TRUE, !.outSeq = r]
       ELSE rtpOut' = [rtpOut EXCEPT !.silenceStarted = TRUE]
    /\ UNCHANGED <<callSpec, evVars, stunReq, demuxed, extracted, callEvents, nOffers, nApi, nEnd, nTr, sigVars, pcVars, brVars,
                   trVars, pktVars>>

\* MediaBridge.sendRtp for a silence frame or a telephony packet: without active
\* relay, SRTP session or socket nothing is built; else the header takes outSeq
\* and outSeq moves on.  The SRTP session is made in the turn of bridgeCall that
\* also starts the silence, so before that no packet is built
SeqSendRtp(canSend) ==
    /\ rtpOut' = IF canSend /\ rtpOut.silenceStarted
                 THEN [rtpOut EXCEPT !.lastSeq = rtpOut.outSeq,
                                     !.outSeq = nextOutSeq(@)]
                 ELSE rtpOut
    /\ UNCHANGED <<callSpec, evVars, stunReq, demuxed, extracted, callEvents, nOffers, nApi, nEnd, nTr, sigVars, pcVars, brVars,
                   trVars, pktVars>>

NextSeq ==
    \/ SeqStartSilence
    \/ \E canSend \in BOOLEAN : SeqSendRtp(canSend)

SpecSeq == InitUnit /\ [][NextSeq]_vars

\* ------------------------------------------- StunClient.sendBindingRequest

STUN_MAGIC_COOKIE == 554869826
STUN_BINDING_REQUEST == 1
ATTR_USERNAME == 6
ATTR_ICE_CONTROLLED == 32809
ATTR_PRIORITY == 36
ATTR_USE_CANDIDATE == 37
ATTR_MESSAGE_INTEGRITY == 8
ATTR_FINGERPRINT == 32808

\* The arguments of the calls: a username may be missing or the empty string
\* (both falsy), a token is a Buffer or missing; the 12 random bytes of a
\* transaction id stand as a number above 0, the zero bytes of a fresh buffer as 0
Usernames == {Undefined, Bytes(<<>>), Bytes(<<99, 49>>), Bytes(<<99, 49, 50, 51>>),
              Bytes(<<99, 49, 50, 51, 52>>)}
Tokens == {Undefined, Bytes(<<1, 2, 3>>), Bytes(ByteSeq(16))}
TransactionIds == 1..4

\* An attribute of the datagram: its type, its length field, and the bytes it
\* takes (the 4 bytes of type and length, the value, the padding)
Attr(type, length, size) == [type |-> type, length |-> length, size |-> size]

\* 1. USERNAME, if (username): padded to a multiple of 4
usernameAttr(username) ==
    IF username.defined /\ Len(username.bytes) > 0
    THEN LET n == Len(username.bytes)
             pad == (4 - (n % 4)) % 4
         IN  <<Attr(ATTR_USERNAME, n, 4 + n + pad)>>
    ELSE <<>>

\* 2. ICE-CONTROLLED: 8 random bytes
iceControlledAttr == <<Attr(ATTR_ICE_CONTROLLED, 8, 12)>>

\* 3. PRIORITY
priorityAttr == <<Attr(ATTR_PRIORITY, 4, 8)>>

\* USE-CANDIDATE on every request: the variant that C13 must tell from the code
useCandidateAlways(useCandidate) == <<Attr(ATTR_USE_CANDIDATE, 0, 4)>>

\* 4. USE-CANDIDATE, if (useCandidate)
useCandidateAttr(useCandidate) ==
    IF useCandidate THEN <<Attr(ATTR_USE_CANDIDATE, 0, 4)>> ELSE <<>>

\* 5. MESSAGE-INTEGRITY, if (token): the 20 bytes of the HMAC
integrityAttr(token) ==
    IF token.defined THEN <<Attr(ATTR_MESSAGE_INTEGRITY, 20, 24)>> ELSE <<>>

\* 6. FINGERPRINT
fingerprintAttr == <<Attr(ATTR_FINGERPRINT, 4, 8)>>

RECURSIVE lenAttrs(_)
\* attrs.reduce((a, b) => a + b.length, 0)
lenAttrs(attrs) == IF attrs = <<>> THEN 0 ELSE Head(attrs).size + lenAttrs(Tail(attrs))

\* The datagram of sendBindingRequest.  The header is a zeroed buffer of 20
\* bytes in which the type is written first; the magic cookie and the
\* transaction id are written in the branch that makes MESSAGE-INTEGRITY, and
\* the length is last written in the FINGERPRINT block
bindingRequest(username, token, useCandidate, transactionId) ==
    LET attrs4 == usernameAttr(username) \o iceControlledAttr \o priorityAttr
                      \o useCandidateAttr(useCandidate)
        attrs5 == attrs4 \o integrityAttr(token)
        lenFinal == lenAttrs(attrs5) + 8
    IN  [header |-> [type |-> STUN_BINDING_REQUEST,
                     length |-> lenFinal,
                     cookie |-> IF token.defined THEN STUN_MAGIC_COOKIE ELSE 0,
                     transactionId |-> IF token.defined THEN transactionId ELSE 0],
         attrs |-> attrs5 \o fingerprintAttr]

\* StunClient.sendBindingRequest: returns at once without socket; else builds
\* the datagram and sends it
SendBindingRequest(hasSocket, username, token, useCandidate, transactionId) ==
    /\ stunReq' = IF hasSocket
                  THEN [built |-> TRUE, username |-> username, token |-> token,
                        useCandidate |-> useCandidate, transactionId |-> transactionId,
                        packet |-> bindingRequest(username, token, useCandidate,
                                                  transactionId)]
                  ELSE stunReq
    /\ UNCHANGED <<callSpec, evVars, rtpOut, demuxed, extracted, callEvents, nOffers, nApi, nEnd, nTr, sigVars, pcVars, brVars,
                   trVars, pktVars>>

NextStun ==
    \E hasSocket \in BOOLEAN, username \in Usernames, token \in Tokens,
       useCandidate \in BOOLEAN, transactionId \in TransactionIds :
        SendBindingRequest(hasSocket, username, token, useCandidate, transactionId)

SpecStun == InitUnit /\ [][NextStun]_vars

\* ------------------------------------------------------- MediaBridge.demux

\* msg[0] of a datagram: a byte, or undefined for a datagram of no bytes
EmptyDatagram == -1
FirstBytes == 0..255 \cup {EmptyDatagram}

\* demux with a first byte of 0..4 taken for STUN: the variant that C14 must
\* tell from the code
demuxUpTo4(first) ==
    IF first = EmptyDatagram THEN "threw"
    ELSE IF first >= 0 /\ first <= 4 THEN "stun"
    ELSE "media"

\* MediaBridge.demux: where a datagram goes.  first.toString(16) throws for a
\* datagram of no bytes; a first byte of 0..3 goes to StunClient.handleMessage
\* (the bridge's STUN client is set at construction), any other to handleMedia
demux(first) ==
    IF first = EmptyDatagram THEN "threw"
    ELSE IF first >= 0 /\ first <= 3 THEN "stun"
    ELSE "media"

\* The lengths of the datagrams: one byte, two, a STUN header, and a header
\* with less than, and with, the 8 bytes an ERROR-CODE attribute takes
DatagramLens == {1, 2, 20, 21, 27, 28}
\* The second byte of a datagram (0 if it has none): with a first byte of 1,
\* 0x01 makes the type 0x0101 (Binding Success), 0x11 the type 0x0111 (Binding
\* Error)
SecondBytes == {0, 1, 17}

\* StunClient.handleMessage: msg.readUInt16BE(0) throws for a datagram of less
\* than 2 bytes; a Binding Success is emitted as 'binding-success'; for a
\* Binding Error of more than 20 bytes msg.readUInt16BE(26) is read, which
\* throws below 28 bytes; everything else is logged at most
handleMessage(len, type) ==
    IF len < 2 THEN "threw"
    ELSE IF type = 257 THEN "binding-success"
    ELSE IF type = 273 /\ len > 20 /\ len < 28 THEN "threw"
    ELSE "logged"

\* The socket's 'message' event: demux, then the handler the datagram goes to.
\* handleMedia catches whatever its decrypting, parsing and sending throws
Message(first, len, second) ==
    /\ (first = EmptyDatagram) = (len = 0)
    /\ len < 2 => second = 0
    \* what is not STUN is told apart by its first byte only: one short and
    \* one long datagram stand for each
    /\ first > 3 => second = 0 /\ len \in {1, 28}
    /\ LET type == first * 256 + second
           path == demux(first)
       IN  demuxed' = [seen |-> TRUE, first |-> first, len |-> len,
                       type |-> IF len >= 2 THEN type ELSE 0, path |-> path,
                       outcome |-> IF path = "stun" THEN handleMessage(len, type)
                                   ELSE IF path = "media" THEN "handled"
                                   ELSE "threw"]
    /\ UNCHANGED <<callSpec, evVars, rtpOut, stunReq, extracted, callEvents, nOffers, nApi, nEnd, nTr, sigVars, pcVars,
                   brVars, trVars, pktVars>>

NextDemux ==
    \E first \in FirstBytes, len \in DatagramLens \cup {0}, second \in SecondBytes :
        Message(first, len, second)

SpecDemux == InitUnit /\ [][NextDemux]_vars

\* ------------------------------------- the key extractor on a stanza tree

\* A node of a stanza tree: tag, the attributes id and token_id ("" when not
\* there), and a content that is a Buffer, an array of nodes, or nothing
BufferNode(tag, id, tokenId, bytes) ==
    [tag |-> tag, id |-> id, token_id |-> tokenId, content |-> "buffer",
     bytes |-> bytes, nodes |-> <<>>]
ArrayNode(tag, nodes) ==
    [tag |-> tag, id |-> "", token_id |-> "", content |-> "array",
     bytes |-> <<>>, nodes |-> nodes]

\* Buffer.from(node.content || []) of a node: the bytes of a Buffer content; an
\* array of nodes gives one zero byte for each of them
contentBytes(node) ==
    IF node.content = "buffer" THEN node.bytes
    ELSE [k \in 1..Len(node.nodes) |-> 0]

\* tokens.set(id, b): a Map keeps the place of a key that is set again
tokensSet(tokens, id, b) ==
    IF \E k \in 1..Len(tokens) : tokens[k].id = id
    THEN [k \in 1..Len(tokens) |-> IF tokens[k].id = id THEN [id |-> id, bytes |-> b]
                                   ELSE tokens[k]]
    ELSE Append(tokens, [id |-> id, bytes |-> b])

\* tokens.get(id)
tokensGet(tokens, id) ==
    IF \E k \in 1..Len(tokens) : tokens[k].id = id
    THEN Bytes((CHOOSE t \in {tokens[k] : k \in 1..Len(tokens)} : t.id = id).bytes)
    ELSE Undefined

RECURSIVE collectTokens(_, _)
RECURSIVE collectTokensAll(_, _)
\* Pass 1 of extractSrtpKeys: every token element with an id and a content of
\* at least one byte, wherever it is in the tree
collectTokens(node, tokens) ==
    LET b == contentBytes(node)
        here == IF node.tag = "token" /\ node.id # "" /\ Len(b) > 0
                THEN tokensSet(tokens, node.id, b) ELSE tokens
    IN  IF node.content = "array" THEN collectTokensAll(node.nodes, here) ELSE here

\* node.content.forEach(collectTokens)
collectTokensAll(nodes, tokens) ==
    IF nodes = <<>> THEN tokens
    ELSE collectTokensAll(Tail(nodes), collectTokens(Head(nodes), tokens))

\* parseRelayEndpoint: a Buffer content of at least 6 bytes gives ip (4 bytes),
\* port (2 bytes, big-endian) and, if more bytes follow, these as token
parseRelayEndpoint(item) ==
    IF item.content = "buffer" /\ Len(item.bytes) >= 6
    THEN [ok |-> TRUE,
          ip |-> SubSeq(item.bytes, 1, 4),
          port |-> item.bytes[5] * 256 + item.bytes[6],
          token |-> IF Len(item.bytes) > 6
                    THEN Bytes(SubSeq(item.bytes, 7, Len(item.bytes))) ELSE Undefined]
    ELSE [ok |-> FALSE, ip |-> <<>>, port |-> 0, token |-> Undefined]

\* parseRelayEndpoint without the token_id look-up that follows it in traverse:
\* the variant that C16 must tell from the code
resolveNever(endpoint, node, tokens) == endpoint

\* traverse: if (!endpoint.token && node.attrs?.token_id)
\*               endpoint.token = tokens.get(node.attrs.token_id)
resolveToken(endpoint, node, tokens) ==
    IF ~endpoint.token.defined /\ node.token_id # ""
    THEN [endpoint EXCEPT !.token = tokensGet(tokens, node.token_id)]
    ELSE endpoint

RECURSIVE traverse(_, _, _)
RECURSIVE traverseAll(_, _, _)
\* Pass 2 of extractSrtpKeys: relays of te and relay elements, and the key blob
\* of the last hbh_key, enc or call-key element with 30 bytes or more
traverse(node, tokens, acc0) ==
    LET endpoint == parseRelayEndpoint(node)
        acc1 == IF node.tag \in {"te", "relay"} /\ endpoint.ok
                THEN [acc0 EXCEPT !.relayEndpoints =
                         Append(@, [ip |-> endpoint.ip, port |-> endpoint.port,
                                    token |-> resolveToken(endpoint, node, tokens).token])]
                ELSE acc0
        b == contentBytes(node)
        acc2 == IF /\ node.tag \in {"hbh_key", "enc", "call-key"}
                   /\ node.content # "none"
                   /\ Len(b) >= 30
                THEN [acc1 EXCEPT !.audioKeys = Bytes(b)] ELSE acc1
    IN  IF node.content = "array" THEN traverseAll(node.nodes, tokens, acc2) ELSE acc2

\* node.content.forEach(traverse)
traverseAll(nodes, tokens, acc0) ==
    IF nodes = <<>> THEN acc0
    ELSE traverseAll(Tail(nodes), tokens, traverse(Head(nodes), tokens, acc0))

\* The value of a base64 character (letters, digits, + and /)
sextet(c) ==
    IF c >= 65 /\ c <= 90 THEN c - 65
    ELSE IF c >= 97 /\ c <= 122 THEN c - 71
    ELSE IF c >= 48 /\ c <= 57 THEN c + 4
    ELSE IF c = 43 THEN 62 ELSE 63

\* Buffer.from(buf.toString(), 'base64') for a buffer of base64 characters
\* whose length is a multiple of 4: three bytes for every four characters
fromBase64(chars) ==
    [k \in 1..((Len(chars) \div 4) * 3) |->
        LET g == ((k - 1) \div 3) * 4
            s1 == sextet(chars[g + 1])
            s2 == sextet(chars[g + 2])
            s3 == sextet(chars[g + 3])
            s4 == sextet(chars[g + 4])
        IN  IF (k - 1) % 3 = 0 THEN s1 * 4 + s2 \div 16
            ELSE IF (k - 1) % 3 = 1 THEN (s2 % 16) * 16 + s3 \div 4
            ELSE (s3 % 4) * 64 + s4]

\* The end of extractSrtpKeys for an offer that is a stanza tree (no offer.call,
\* so no keys of the proto helper): a blob of 40 bytes is taken for base64
\* text; relays that all lack a token get the first token of the tree; without
\* keys the result is null
extractSrtpKeysOfNode(rootNode) ==
    LET tokens == collectTokens(rootNode, <<>>)
        acc0 == traverse(rootNode, tokens, [relayEndpoints |-> <<>>, audioKeys |-> Undefined])
        keysBuffer == IF Len(acc0.audioKeys.bytes) = 40
                      THEN fromBase64(acc0.audioKeys.bytes) ELSE acc0.audioKeys.bytes
        hasKeys == acc0.audioKeys.defined /\ Len(keysBuffer) >= 30
        relays == acc0.relayEndpoints
        hasToken == \E k \in 1..Len(relays) : relays[k].token.defined
        withFallback == IF Len(relays) > 0 /\ Len(tokens) > 0 /\ ~hasToken
                        THEN [k \in 1..Len(relays) |->
                                 [relays[k] EXCEPT !.token = Bytes(tokens[1].bytes)]]
                        ELSE relays
    IN  IF hasKeys
        THEN [found |-> TRUE, masterKey |-> SubSeq(keysBuffer, 1, 16),
              masterSalt |-> SubSeq(keysBuffer, 17, 30), relayEndpoints |-> withFallback]
        ELSE [found |-> FALSE, masterKey |-> <<>>, masterSalt |-> <<>>,
              relayEndpoints |-> <<>>]

\* The elements the offers' trees are made of: relays with a token of their
\* own or with a token_id, tokens, and key blobs of 29, 30, 32 and 40 bytes
\* (the last one base64 text, the letters A to Z)
TeInline == BufferNode("te", "", "", <<10, 0, 0, 1, 13, 150, 7, 7, 7>>)
TeRef1 == BufferNode("te", "", "t1", <<10, 0, 0, 2, 13, 151>>)
TeRef2 == BufferNode("te", "", "t2", <<10, 0, 0, 3, 13, 152>>)
Tok1 == BufferNode("token", "t1", "", <<1, 1>>)
Tok2 == BufferNode("token", "t2", "", <<2, 2, 2>>)
Key29 == BufferNode("call-key", "", "", ByteSeq(29))
Key30 == BufferNode("call-key", "", "", ByteSeq(30))
Key32 == BufferNode("enc", "", "", ByteSeq(32))
Key40 == BufferNode("call-key", "", "", [k \in 1..40 |-> 65 + (k % 26)])
Elements == {TeInline, TeRef1, TeRef2, Tok1, Tok2, Key29, Key30, Key32, Key40}

\* The trees: up to MaxChildren different elements under the root, in every
\* order, the ones after the first also one level down
MaxChildren == 4
ChildLists ==
    UNION {{q \in [1..n -> Elements] : \A i, j \in 1..n : i # j => q[i] # q[j]}
              : n \in 1..MaxChildren}
OfferTrees ==
    {ArrayNode("offer", q) : q \in ChildLists}
    \cup {ArrayNode("offer", <<Head(q), ArrayNode("destination", Tail(q))>>)
             : q \in {r \in ChildLists : Len(r) > 1}}

\* The offers of the decoded protobuf shape, with call keys of no, 29, 30, 32
\* and 40 bytes
OfferLongKey == [present |-> TRUE, callKey |-> ByteSeq(40), relays |-> <<RelayA>>,
                 raw |-> FALSE, enc |-> <<>>, stanzaId |-> OfferStanzaId]
ProtoOffers == Offers \cup {OfferLongKey}

\* An offer handed to extractSrtpKeys, of either shape, before the call
Pending(shape, offer, rootNode) ==
    [NoExtract EXCEPT !.shape = shape, !.proto = offer, !.node = rootNode]

\* One audio call, and one offer for the extractor
InitExtract ==
    /\ InitGateway
    /\ \A c \in OfferIds : callSpec[c] = [isVideo |-> FALSE, offer |-> OfferOneRelay]
    /\ rtpOut = NewRtpOut
    /\ stunReq = NoStunReq
    /\ demuxed = NoDatagram
    /\ callEvents = NoCallEvents
    /\ extracted \in {Pending("proto", offer, <<>>) : offer \in ProtoOffers}
                     \cup {Pending("node", OfferAbsent, rootNode) : rootNode \in OfferTrees}

\* extractSrtpKeys(offer) for an offer of the decoded protobuf shape
ExtractFromProto ==
    /\ ~extracted.done
    /\ extracted.shape = "proto"
    /\ extracted' = [extracted EXCEPT !.done = TRUE,
                                      !.result = extractSrtpKeys(extracted.proto)]
    /\ UNCHANGED <<callSpec, evVars, rtpOut, stunReq, demuxed, callEvents, nOffers, nApi, nEnd, nTr, sigVars,
                   pcVars, brVars, trVars, pktVars>>

\* extractSrtpKeys(offer) for an offer that is a stanza tree
ExtractFromNode ==
    /\ ~extracted.done
    /\ extracted.shape = "node"
    /\ extracted' = [extracted EXCEPT !.done = TRUE,
                                      !.result = extractSrtpKeysOfNode(extracted.node)]
    /\ UNCHANGED <<callSpec, evVars, rtpOut, stunReq, demuxed, callEvents, nOffers, nApi, nEnd, nTr, sigVars,
                   pcVars, brVars, trVars, pktVars>>

NextExtract ==
    \/ ExtractFromProto
    \/ ExtractFromNode

SpecExtract == InitExtract /\ [][NextExtract]_vars

\* ------------------------------- the 'call' event listener up to the offer

\* for (let i = 0; i < 3; i++): the polls of the cache for one offer
MaxPollAttempts == 3

\* A poll loop that never ends by itself: the variant that C33 must tell from
\* the code
giveUpNever(attempts) == FALSE

\* The loop's end: after the read that follows the third wait
giveUp(attempts) == attempts >= MaxPollAttempts

\* The offer branch from the callEvent on: the per-call state is made anew,
\* 'call:offer' is emitted with the offer found, or without, and RINGING is
\* sent and waited for
proceed(ce, x, c) ==
    [ce EXCEPT !.state[c] = NoObj,
               !.emitted[c] = IF ce.cached[c] THEN "present" ELSE "absent",
               !.h[x].pc = "ringing"]

RECURSIVE advance(_, _)
\* for (const call of calls), from the position of activation x up to the next
\* wait: a timeout deletes the cached offer and the state and goes on; an offer
\* that is cached proceeds, one that is not waits for the first poll
advance(ce, x) ==
    LET a == ce.h[x]
    IN  IF a.pos > Len(a.batch) THEN [ce EXCEPT !.h[x].pc = "done"]
        ELSE LET e == a.batch[a.pos]
             IN  IF e.status = "timeout"
                 THEN advance([ce EXCEPT !.cached[e.id] = FALSE, !.state[e.id] = "none",
                                         !.h[x].pos = a.pos + 1], x)
                 ELSE IF ce.cached[e.id] THEN proceed(ce, x, e.id)
                 ELSE [ce EXCEPT !.h[x].pc = "poll", !.h[x].attempts = 0]

evUnchanged ==
    UNCHANGED <<callSpec, evVars, rtpOut, stunReq, demuxed, extracted, nOffers, nApi, nEnd,
                nTr, sigVars, pcVars, brVars, trVars, pktVars>>

\* sock.ev 'call' with a batch of call events: a new activation of the listener
CallEvent(x, batch) ==
    /\ callEvents.h[x].pc = "idle"
    /\ \A y \in EvHandlers : y < x => callEvents.h[y].pc # "idle"
    /\ callEvents' = advance([callEvents EXCEPT !.h[x] = [NoHandler EXCEPT !.batch = batch,
                                                                          !.pos = 1]], x)
    /\ evUnchanged

\* The sniffer has decrypted an offer and stores it
SnifferStored(c) ==
    /\ ~callEvents.cached[c]
    /\ callEvents' = [callEvents EXCEPT !.cached[c] = TRUE]
    /\ evUnchanged

\* The 200 ms of a poll are over: the cache is read again; the offer proceeds
\* when it is there now, or when the loop ends
PollWake(x) ==
    /\ callEvents.h[x].pc = "poll"
    /\ callEvents.h[x].attempts <= MaxPollAttempts
    /\ LET a == callEvents.h[x]
           c == a.batch[a.pos].id
           n == a.attempts + 1
       IN  callEvents' = IF callEvents.cached[c] \/ giveUp(n)
                         THEN proceed([callEvents EXCEPT !.h[x].attempts = n], x, c)
                         ELSE [callEvents EXCEPT !.h[x].attempts = n]
    /\ evUnchanged

\* The RINGING of the offer branch is sent: the receipt is sent and waited for
EvRingingSent(x) ==
    /\ callEvents.h[x].pc = "ringing"
    /\ callEvents' = [callEvents EXCEPT !.h[x].pc = "receipt"]
    /\ evUnchanged

\* The receipt is sent: the loop goes on with the next call event of the batch
EvReceiptSent(x) ==
    /\ callEvents.h[x].pc = "receipt"
    /\ callEvents' = advance([callEvents EXCEPT !.h[x].pos = @ + 1], x)
    /\ evUnchanged

NextEvents ==
    \/ \E x \in EvHandlers, batch \in Batches : CallEvent(x, batch)
    \/ \E c \in CallIds : SnifferStored(c)
    \/ \E x \in EvHandlers : PollWake(x)
    \/ \E x \in EvHandlers : EvRingingSent(x)
    \/ \E x \in EvHandlers : EvReceiptSent(x)

SpecEvents == InitUnit /\ [][NextEvents]_vars

\* The timers fire and the sends to the socket resolve
SpecEventsFair ==
    /\ SpecEvents
    /\ \A x \in EvHandlers :
          WF_vars(PollWake(x)) /\ WF_vars(EvRingingSent(x)) /\ WF_vars(EvReceiptSent(x))

\* ------------------------------------------------------------------ claims

\* C1: for a call session (one offer of a call id), however often the accept
\* flow is invoked, one after the other or overlapping during the settling
\* delay, no more than one ACCEPT and no more than one READY is sent for the
\* call id.
C1_AcceptSentOnce ==
    \A c \in OfferIds :
        nOffers <= 1 => sent[c].n["accept"] <= 1 /\ sent[c].n["ready"] <= 1

\* C2: for an offer with isVideo = true no PREACCEPT is ever sent for the call
\* id, and once the offer's listener is through, a REJECT was sent and the call
\* is out of the active-call table.
C2_VideoRejected ==
    \A c \in OfferIds :
        callSpec[c].isVideo =>
            /\ sent[c].n["preaccept"] = 0
            /\ (nOffers = 1 /\ hPc[1] = "done") =>
                   sent[c].n["reject"] >= 1 /\ c \notin activeCalls

\* The place of a kind in the order of first sends (0: not sent)
Pos(c, kind) ==
    IF \E k \in 1..Len(sent[c].first) : sent[c].first[k] = kind
    THEN CHOOSE k \in 1..Len(sent[c].first) : sent[c].first[k] = kind
    ELSE 0

Before(c, a, b) == Pos(c, b) > 0 => (Pos(c, a) > 0 /\ Pos(c, a) < Pos(c, b))

\* C3: for an audio call the stanzas of the call id come in the order RINGING,
\* receipt, PREACCEPT, ACCEPT, READY: none of them is sent before its
\* predecessor in that list.
C3_StanzaOrder ==
    \A c \in OfferIds :
        ~callSpec[c].isVideo =>
            /\ Before(c, "ringing", "receipt")
            /\ Before(c, "receipt", "preaccept")
            /\ Before(c, "preaccept", "accept")
            /\ Before(c, "accept", "ready")

\* C4: when 'bridge:created' is emitted for an offer that yields keys, the relay
\* has its SRTP session, its relay set is the offer's relay candidates, each
\* tagged with the call id as username, one Binding Request has gone to each of
\* their addresses, and the silence interval is set; for an offer without keys
\* none of the four has happened. An offer yields keys with a call key of 30
\* bytes or more or, as a raw offer node, with an enc element of that length.
C4_CreatedAfterSetup ==
    [][\A i \in Insts :
          emitted'[i].created # emitted[i].created =>
              LET c == inst[i]
                  offer == callSpec[c].offer
                  m == mediaBridge'[i]
                  addr(k) == <<offer.relays[k].ip, offer.relays[k].port>>
              IN  IF \/ offer.present /\ Len(offer.callKey) >= 30
                     \/ offer.raw /\ Len(offer.enc) >= 30
                  THEN /\ m.srtpSession
                       /\ Len(m.relayEndpoints) = Len(offer.relays)
                       /\ \A k \in 1..Len(offer.relays) :
                            /\ m.relayEndpoints[k].ip = offer.relays[k].ip
                            /\ m.relayEndpoints[k].port = offer.relays[k].port
                            /\ m.relayEndpoints[k].token = offer.relays[k].token
                            /\ m.relayEndpoints[k].username = c
                       /\ \A e \in Endpoints :
                            stunTx'[i][e] - stunTx[i][e] =
                                IF \E k \in 1..Len(offer.relays) : addr(k) = e THEN 1 ELSE 0
                       /\ m.silenceInterval
                  ELSE /\ ~m.srtpSession
                       /\ m.relayEndpoints = mediaBridge[i].relayEndpoints
                       /\ stunTx'[i] = stunTx[i]
                       /\ ~m.silenceInterval]_vars

C4_Witness ==
    \E i \in Insts :
        /\ emitted[i].created = 1
        /\ callSpec[inst[i]].offer = OfferTwoRelays
        /\ mediaBridge[i].silenceInterval
        /\ Len(mediaBridge[i].relayEndpoints) = 2

\* C5: a payload-type-0 packet of the telephony leg that is handled after SRTP
\* was initialised and before any media of the platform has arrived is sent on
\* to the platform's relay with payload type 111, and the silence interval is
\* off from then on.
C5_TelephonyForwarded ==
    \A i \in Insts :
        (/\ lastOut[i].evt = "telephony"
         /\ lastOut[i].inPt = 0
         /\ mediaBridge[i].srtpSession
         /\ ~mediaSeen[i].wa)
        => /\ lastOut[i].out = "toWhatsApp"
           /\ lastOut[i].pt = 111
           /\ ~mediaBridge[i].silenceInterval

\* C6: once the relay has handled a media datagram of the telephony host its
\* silence interval is never set again, so that no silence frame is sent
\* afterwards for that bridge.
C6_SilenceStopsForGood ==
    \A i \in Insts : mediaSeen[i].ast => ~mediaBridge[i].silenceInterval

\* a relay with keys, never torn down, whose silence ended at a telephony packet
C6_Witness ==
    \E i \in Insts :
        /\ mediaSeen[i].ast
        /\ mediaBridge[i].srtpSession
        /\ emitted[i].ended = 0
        /\ lastOut[i].evt = "telephony"

C8_NoTimerAfterTeardown ==
    [][\A i \in Insts :
          emitted[i].ended >= 1 => ~(KeepAliveTick(i) \/ SilenceTick(i))]_vars

\* C9: whenever a leg ends a bridged call (the platform's reject or timeout, the
\* SIP BYE), the bridge's relay and STUN client are stopped, the bridge leaves
\* the registry and 'bridge:ended' is emitted.
C9_LegEndTearsDown ==
    [][\A c \in OfferIds :
          (\/ StatusTimeout(c)
           \/ StatusReject(c)
           \/ \E i \in Insts : inst[i] = c /\ SipBye(i))
          => LET b == activeBridges[c]
             IN  b # 0 => /\ activeBridges'[c] = 0
                          /\ ~mediaBridge'[b].keepAlive
                          /\ ~stunSocket'[b]
                          /\ emitted'[b].ended = emitted[b].ended + 1]_vars

C11_SeqWrapsAt65536 ==
    [][(rtpOut.lastSeq >= 0 /\ rtpOut'.lastSeq # rtpOut.lastSeq)
          => rtpOut'.lastSeq = (rtpOut.lastSeq + 1) % 65536]_vars

\* C12: every Binding Request built, with or without a token, has the type
\* 0x0001, the magic cookie at bytes 4..7, the transaction id generated for it
\* at bytes 8..19, and a length field that is the byte length of all its
\* attributes, FINGERPRINT included.
C12_HeaderComplete ==
    stunReq.built =>
        LET h == stunReq.packet.header
        IN  /\ h.type = 1
            /\ h.cookie = 554869826
            /\ h.transactionId = stunReq.transactionId
            /\ h.length = lenAttrs(stunReq.packet.attrs)

\* C13: the attributes of every Binding Request are, in this order, USERNAME
\* (iff a non-empty username is given), ICE-CONTROLLED, PRIORITY, USE-CANDIDATE
\* (iff nominating), MESSAGE-INTEGRITY (iff a token is given), FINGERPRINT.
C13_AttributeOrder ==
    stunReq.built =>
        LET attrs == stunReq.packet.attrs
            types == [k \in 1..Len(attrs) |-> attrs[k].type]
        IN  types = (IF stunReq.username.defined /\ stunReq.username.bytes # <<>>
                     THEN <<6>> ELSE <<>>)
                    \o <<32809, 36>>
                    \o (IF stunReq.useCandidate THEN <<37>> ELSE <<>>)
                    \o (IF stunReq.token.defined THEN <<8>> ELSE <<>>)
                    \o <<32808>>

\* a plain request without token and without nomination, with a username
C13_Witness ==
    /\ stunReq.built
    /\ stunReq.username.defined /\ Len(stunReq.username.bytes) = 5
    /\ ~stunReq.useCandidate
    /\ ~stunReq.token.defined
    /\ Len(stunReq.packet.attrs) = 4

\* C14: a datagram with a first byte goes to the STUN client iff that byte is
\* in 0..3 and to the media handling iff it is in 4..255: to one of the two,
\* never to both and never to neither.
C14_DemuxByFirstByte ==
    (demuxed.seen /\ demuxed.first \in 0..255) =>
        /\ demuxed.path \in {"stun", "media"}
        /\ demuxed.path = "stun" <=> demuxed.first \in 0..3
        /\ demuxed.path = "media" <=> demuxed.first \in 4..255

\* the lowest first byte that is media
C14_Witness == demuxed.seen /\ demuxed.first = 4 /\ demuxed.path = "media"

RECURSIVE KeyBlobs(_)
RECURSIVE KeyBlobsAll(_)
\* The blobs of the key elements of a tree, in the order of the traversal
KeyBlobs(node) ==
    (IF node.tag \in {"hbh_key", "enc", "call-key"} /\ node.content = "buffer"
     THEN <<node.bytes>> ELSE <<>>)
    \o (IF node.content = "array" THEN KeyBlobsAll(node.nodes) ELSE <<>>)
KeyBlobsAll(nodes) ==
    IF nodes = <<>> THEN <<>> ELSE KeyBlobs(Head(nodes)) \o KeyBlobsAll(Tail(nodes))

\* The one key blob of the offer last extracted from, if it has exactly one
TheBlob ==
    IF extracted.shape = "proto"
    THEN IF extracted.proto.present THEN <<extracted.proto.callKey>> ELSE <<>>
    ELSE IF extracted.shape = "node" /\ Len(KeyBlobs(extracted.node)) = 1
    THEN KeyBlobs(extracted.node)
    ELSE <<>>

\* C15: when the offer holds one key blob, of whatever length from 30 bytes on
\* (32 and 40 among them), the extractor returns its bytes 0..15 as masterKey
\* and its bytes 16..29 as masterSalt; when the blob is shorter than 30 bytes
\* the result is null.
C15_KeysAreBlobSlices ==
    (extracted.done /\ TheBlob # <<>>) =>
        LET b == TheBlob[1]
        IN  IF Len(b) >= 30
            THEN /\ extracted.result.found
                 /\ extracted.result.masterKey = SubSeq(b, 1, 16)
                 /\ extracted.result.masterSalt = SubSeq(b, 17, 30)
            ELSE ~extracted.result.found

RECURSIVE NodesOf(_)
RECURSIVE NodesOfAll(_)
\* All nodes of a tree
NodesOf(node) ==
    {node} \cup (IF node.content = "array" THEN NodesOfAll(node.nodes) ELSE {})
NodesOfAll(nodes) ==
    IF nodes = <<>> THEN {} ELSE NodesOf(Head(nodes)) \cup NodesOfAll(Tail(nodes))

\* C16: when the extractor returns a result for a tree in which a relay element
\* without token bytes of its own names a token_id that a token element of the
\* tree declares, before or after it, the relay's endpoint in the result has
\* that token's bytes as token.
C16_TokenIdResolved ==
    (extracted.done /\ extracted.shape = "node" /\ extracted.result.found) =>
        \A te \in NodesOf(extracted.node), tok \in NodesOf(extracted.node) :
            (/\ te.tag = "te" /\ Len(te.bytes) = 6 /\ te.token_id # ""
             /\ tok.tag = "token" /\ tok.id = te.token_id)
            => LET relays == extracted.result.relayEndpoints
                   mine == {k \in 1..Len(relays) :
                               /\ relays[k].ip = SubSeq(te.bytes, 1, 4)
                               /\ relays[k].port = te.bytes[5] * 256 + te.bytes[6]}
               IN  /\ mine # {}
                   /\ \A k \in mine : relays[k].token = [defined |-> TRUE, bytes |-> tok.bytes]

\* the relay comes first, one level down, and its token after it, behind
\* another token and next to a relay with a token of its own
C16_Witness ==
    /\ extracted.done
    /\ extracted.result.found
    /\ extracted.node =
           ArrayNode("offer", <<Key30, ArrayNode("destination", <<TeRef1, Tok2, Tok1>>)>>)
    /\ extracted.result.relayEndpoints[1].token.bytes = Tok1.bytes

\* C17: when a transport event updates the relays of a bridge, every relay the
\* bridge knew stays in its relay set, and a known relay whose new descriptor
\* brings no token keeps the token and the username it had.
C17_RelaysMerged ==
    [][\A k \in TransportFlows :
          (Responded(k) \/ SnifferAcked(k)) =>
              \A b \in Insts :
                  LET old == mediaBridge[b].relayEndpoints
                      new == mediaBridge'[b].relayEndpoints
                      given == extractRelaysFromTransport(tr[k].node).relays
                  IN  \A j \in 1..Len(old) :
                          \E n \in 1..Len(new) :
                              /\ new[n].ip = old[j].ip
                              /\ new[n].port = old[j].port
                              /\ (\A g \in 1..Len(given) :
                                     (/\ given[g].ip = old[j].ip
                                      /\ given[g].port = old[j].port
                                      /\ given[g].token = NoToken)
                                     => /\ new[n].token = old[j].token
                                        /\ new[n].username = old[j].username)]_vars

\* C18: when the SIP call of a bridge fails (the INVITE is answered with a
\* failure status, or the credentials are refused), the bridge is torn down:
\* after that its relay has no socket and no timer, its STUN client no socket,
\* the registry no entry for it, and 'bridge:ended' has been emitted for it.
C18_FailedCallTearsDown ==
    [][\A i \in Insts :
          (MakeCallFailed(i) \/ MakeCallAuthRefused(i)) =>
              /\ mediaBridge'[i].udpSocket # "bound"
              /\ ~mediaBridge'[i].keepAlive
              /\ ~mediaBridge'[i].silenceInterval
              /\ ~stunSocket'[i]
              /\ activeBridges'[inst[i]] # i
              /\ emitted'[i].ended >= 1]_vars

\* C19: when endCall(callId) returns, with its TERMINATE sent or failed to
\* send, the call id has no entry in the active-call table and none in the
\* per-call signaling state.
C19_EndCallClearsState ==
    [][\A c \in OfferIds :
          (EndCallSent(c) \/ (EndCall(c) /\ c \notin activeCalls)) =>
              /\ c \notin activeCalls'
              /\ callState'[c] = 0]_vars

\* C20: the ack of a transport or relaylatency stanza is sent before any
\* response to that stanza: a response is only sent when the ack is out, and
\* every such stanza that was received has its ack, with or without a session
\* for its call id.
C20_AckBeforeResponse ==
    /\ [](\A k \in TransportFlows :
             tr[k].node.item \in {"transport", "relaylatency"} =>
                 \E a \in acks : a.id = tr[k].node.id /\ a.to = tr[k].node.from)
    /\ [][\A k \in TransportFlows :
             (HandlerAcked(k) /\ sent' # sent) =>
                 \E a \in acks : a.id = tr[k].node.id /\ a.to = tr[k].node.from]_vars

\* a relaylatency stanza of a call id without session, acked and answered
C20_Witness ==
    \E k \in TransportFlows :
        /\ tr[k].pc = "responded"
        /\ tr[k].node.item = "relaylatency"
        /\ callState[tr[k].node.callId] = 0
        /\ sent[tr[k].node.callId].n["relaylatency"] >= 1
        /\ \E a \in acks : a.id = tr[k].node.id

\* C21: every stanza the gateway sends for a call (RINGING, receipt, PREACCEPT,
\* ACCEPT, READY, transport and relaylatency response, TERMINATE) has as its to
\* the JID of the offer as it was received, device part included, and none has
\* a normalized form of it.
C21_ExactRemoteJid ==
    \A c \in OfferIds :
        \A x \in sent[c].nodes :
            x.kind \in {"ringing", "receipt", "preaccept", "accept", "ready",
                        "transport", "relaylatency", "terminate"}
            => x.to = OfferFrom

\* C22: when the extractor finds no valid key material in an offer that holds
\* relay candidates, its result has no keys but still has those candidates:
\* every relay of the offer (of the protobuf's relays, of the tree's relay
\* elements) is among the returned relay endpoints.
C22_RelaysKeptWithoutKeys ==
    (extracted.done /\ ~extracted.result.found) =>
        LET relays == extracted.result.relayEndpoints
        IN  /\ extracted.shape = "proto" =>
                  \A j \in 1..Len(extracted.proto.relays) :
                      \E k \in 1..Len(relays) :
                          /\ relays[k].ip = extracted.proto.relays[j].ip
                          /\ relays[k].port = extracted.proto.relays[j].port
            /\ extracted.shape = "node" =>
                  \A te \in NodesOf(extracted.node) :
                      (te.tag \in {"te", "relay"} /\ Len(te.bytes) >= 6) =>
                          \E k \in 1..Len(relays) :
                              /\ relays[k].ip = SubSeq(te.bytes, 1, 4)
                              /\ relays[k].port = te.bytes[5] * 256 + te.bytes[6]

\* C23: the accepted flag of a call's state is true only if PREACCEPT, ACCEPT
\* and READY were all sent for the call without a send failure: in every
\* state, accepted implies that the send of each of the three has succeeded.
C23_AcceptedAfterAllSent ==
    \A i \in Insts :
        stateObj[i].accepted =>
            {"preaccept", "accept", "ready"} \subseteq sent[inst[i]].ok

\* C24: a transport event that belongs to one call leaves every bridge of
\* another call as it was: the relay set of such a bridge does not change and
\* no Binding Request is sent from it.
C24_CallsIndependent ==
    [][\A k \in TransportFlows :
          (Responded(k) \/ SnifferAcked(k)) =>
              \A b \in Insts :
                  (inst[b] # "" /\ inst[b] # tr[k].node.callId) =>
                      /\ mediaBridge'[b].relayEndpoints = mediaBridge[b].relayEndpoints
                      /\ stunTx'[b] = stunTx[b]]_vars

\* C25: after a terminate, a timeout or a reject of a call, whether it comes
\* from the platform ('call' event) or from the gateway itself (endCall,
\* rejectCall), the call id has no entry in the active-call table and none in
\* the per-call signaling state, whatever state the call was in.
C25_SessionDestroyed ==
    [][\A c \in OfferIds :
          (\/ StatusTerminate(c)
           \/ StatusTimeout(c)
           \/ StatusReject(c)
           \/ EndCallSent(c)
           \/ (EndCall(c) /\ c \notin activeCalls)
           \/ \E i \in Insts : inst[i] = c /\ HandlerRejectSent(i))
          => /\ c \notin activeCalls'
             /\ callState'[c] = 0]_vars

\* C26: the active relay of a bridge changes only when a datagram that does
\* not come from the telephony host is decrypted by the bridge's SRTP session,
\* and is then that datagram's address with the token and the username of the
\* known relay candidate of that address (none if there is none); a packet
\* sent toward the platform goes to the active relay, and without an active
\* relay an outbound packet is dropped.
C26_ActiveRelayFromDecrypt ==
    /\ [](\A i \in Insts :
             /\ lastOut[i].out = "toWhatsApp" =>
                    /\ lastOut[i].ip = mediaBridge[i].activeRelay.ip
                    /\ lastOut[i].port = mediaBridge[i].activeRelay.port
             /\ (mediaBridge[i].activeRelay.ip = "" /\ lastOut[i].evt \in {"silence", "telephony"})
                    => lastOut[i].out = "dropped")
    /\ [][\A i \in Insts :
             mediaBridge'[i].activeRelay # mediaBridge[i].activeRelay =>
                 LET m == mediaBridge[i]
                     a == mediaBridge'[i].activeRelay
                     known == {k \in 1..Len(m.relayEndpoints) :
                                  /\ m.relayEndpoints[k].ip = a.ip
                                  /\ m.relayEndpoints[k].port = a.port}
                 IN  /\ m.srtpSession
                     /\ \E src \in Sources, pt \in TelephonyPts :
                           /\ src.ip # AsteriskHost
                           /\ Datagram(i, src, "rtp", pt, TRUE)
                           /\ a.ip = src.ip
                           /\ a.port = src.port
                     /\ IF known = {}
                        THEN a.token = NoToken /\ a.username = ""
                        ELSE LET k == CHOOSE j \in known : \A l \in known : j <= l
                             IN  /\ a.token = m.relayEndpoints[k].token
                                 /\ a.username = m.relayEndpoints[k].username]_vars

\* the relay of the offer has become the active relay, with its token and the
\* call id as username, and a telephony packet has gone to it
C26_Witness ==
    \E i \in Insts :
        /\ mediaBridge[i].activeRelay.ip = RelayA.ip
        /\ mediaBridge[i].activeRelay.port = RelayA.port
        /\ mediaBridge[i].activeRelay.token = RelayA.token
        /\ mediaBridge[i].activeRelay.username = inst[i]
        /\ lastOut[i].evt = "telephony"
        /\ lastOut[i].out = "toWhatsApp"
        /\ lastOut[i].ip = RelayA.ip

\* C27: at every keep-alive tick of a running relay a Binding Request goes to
\* each relay candidate the relay knows: for each of them the count of
\* requests sent to its address goes up (as far as the counters go).
C27_KeepAliveAllCandidates ==
    [][\A i \in Insts :
          KeepAliveTick(i) =>
              \A k \in 1..Len(mediaBridge[i].relayEndpoints) :
                  LET e == <<mediaBridge[i].relayEndpoints[k].ip,
                             mediaBridge[i].relayEndpoints[k].port>>
                  IN  stunTx[i][e] < CountCap => stunTx'[i][e] > stunTx[i][e]]_vars

\* C28: the handling of an inbound datagram throws nothing out of the relay's
\* message handler, whatever the datagram: empty, shorter than a STUN header,
\* a Binding Error of less than 28 bytes, or media that cannot be decrypted or
\* parsed.
C28_DatagramNeverThrows ==
    demuxed.seen => demuxed.outcome # "threw"

RECURSIVE CallKeyBlobs(_)
RECURSIVE CallKeyBlobsAll(_)
\* The blobs of 30 bytes or more of the call-key elements of a tree, in the
\* order of the traversal
CallKeyBlobs(node) ==
    (IF node.tag = "call-key" /\ node.content = "buffer" /\ Len(node.bytes) >= 30
     THEN <<node.bytes>> ELSE <<>>)
    \o (IF node.content = "array" THEN CallKeyBlobsAll(node.nodes) ELSE <<>>)
CallKeyBlobsAll(nodes) ==
    IF nodes = <<>> THEN <<>>
    ELSE CallKeyBlobs(Head(nodes)) \o CallKeyBlobsAll(Tail(nodes))

\* C29: when the offer tree holds a call-key element of 30 bytes or more, the
\* returned key and salt are taken from the last such element (a blob of 40
\* bytes after its base64 decoding), wherever the enc and hbh_key elements
\* stand in the tree.
C29_CallKeyAuthoritative ==
    (extracted.done /\ extracted.shape = "node" /\ CallKeyBlobs(extracted.node) # <<>>) =>
        LET blobs == CallKeyBlobs(extracted.node)
            b == blobs[Len(blobs)]
            keysBuffer == IF Len(b) = 40 THEN fromBase64(b) ELSE b
        IN  /\ extracted.result.found
            /\ extracted.result.masterKey = SubSeq(keysBuffer, 1, 16)
            /\ extracted.result.masterSalt = SubSeq(keysBuffer, 17, 30)

\* C30: every receipt sent for an offer carries as its id the id of the
\* offer's stanza, also when only the raw offer node is in the cache.
C30_ReceiptNamesOffer ==
    \A c \in CallIds : \A n \in sent[c].nodes :
        n.kind = "receipt" => n.id = OfferStanzaId

\* The children of an item with one of the tags, in their order
ChildrenTagged(children, tags) == SelectSeq(children, LAMBDA ch : ch.tag \in tags)

\* The relaylatency stanzas of a handled stanza are one for each child with one
\* of the tags, in the children's order, with latency 10 and the content that
\* answer gives for the child
LatencyAnswers(tags, answer(_)) ==
    \A k \in TransportFlows :
        (tr[k].pc = "done" /\ tr[k].node.item = "relaylatency") =>
            LET tes == ChildrenTagged(tr[k].node.children, tags)
            IN  tr[k].out = [j \in 1..Len(tes) |->
                                [latency |-> "10", content |-> answer(tes[j])]]

\* The handling of a relaylatency item of a call with a session sets gotRelay
GotRelaySet ==
    \A k \in TransportFlows :
        (HandlerAcked(k) /\ tr[k].node.item = "relaylatency"
                         /\ callState[tr[k].node.callId] # 0) =>
            stateObj'[callState[tr[k].node.callId]].gotRelay

OwnContent(te) == te.content
OwnContentOrZeros(te) == IF te.content = "" THEN ZeroToken ELSE te.content

\* C31 as stated: for every relaylatency item one relaylatency stanza is sent
\* for each te child, in child order, each with the latency 10 and the content of
\* that child unchanged, with or without a session for the call id; with a
\* session, gotRelay is true afterwards.
C31_OnePerTeChild ==
    [](LatencyAnswers({"te"}, OwnContent)) /\ [][GotRelaySet]_vars

\* C31, amended: for every relaylatency item one relaylatency stanza is sent
\* for each te or te2 child, in child order, each with the latency 10 and the
\* content of that child, or six zero bytes for a child without content, with or
\* without a session for the call id; with a session, gotRelay is true afterwards.
C31_OnePerTeOrTe2Child ==
    [](LatencyAnswers({"te", "te2"}, OwnContentOrZeros)) /\ [][GotRelaySet]_vars

C31_Witness ==
    \E k \in TransportFlows :
        /\ tr[k].pc = "done"
        /\ tr[k].node.item = "relaylatency"
        /\ callState[tr[k].node.callId] = 0
        /\ Len(tr[k].out) = 3
        /\ tr[k].out[1].content = ZeroToken

\* C32: every transport response carries the public address learned last, or
\* the configured one when none was learned, and the public address changes
\* only when the endpoint of an rte element is processed, to that endpoint.
C32_ResponseCarriesLearnedAddress ==
    [][/\ \A k \in TransportFlows :
            (HandlerAcked(k) /\ tr[k].node.item = "transport") =>
                tr'[k].cand = IF publicInfo = NoPublicInfo
                              THEN [ip |-> ConfigPublicIp, port |-> ConfigPortMin]
                              ELSE publicInfo
       /\ publicInfo' # publicInfo =>
            \E k \in TransportFlows :
                /\ HandlerAcked(k) \/ Responded(k)
                /\ tr[k].node.rte # NoRte
                /\ publicInfo' = tr[k].node.rte]_vars

\* C33: the polling of an offer that is not cached ends: the cache is read at
\* most three times after the offer arrived, and when the third read finds
\* nothing 'call:offer' is emitted without offer and the call's state is made
\* with gotTransport, gotRelay and accepted all false.
C33_PollEnds ==
    /\ [](\A x \in EvHandlers : callEvents.h[x].attempts <= 3)
    /\ [][\A x \in EvHandlers :
            (/\ callEvents.h[x].pc = "poll"
             /\ callEvents.h[x].attempts = 2
             /\ callEvents'.h[x].attempts = 3
             /\ ~callEvents.cached[callEvents.h[x].batch[callEvents.h[x].pos].id]) =>
                LET c == callEvents.h[x].batch[callEvents.h[x].pos].id
                IN  /\ callEvents'.h[x].pc = "ringing"
                    /\ callEvents'.emitted[c] = "absent"
                    /\ callEvents'.state[c] =
                         [gotTransport |-> FALSE, gotRelay |-> FALSE, accepted |-> FALSE]]_vars
    /\ \A x \in EvHandlers :
          (callEvents.h[x].pc = "poll") ~> (callEvents.h[x].pc # "poll")

C33_Witness ==
    \E x \in EvHandlers :
        /\ callEvents.h[x].pc = "ringing"
        /\ callEvents.h[x].attempts = 3
        /\ callEvents.emitted[callEvents.h[x].batch[callEvents.h[x].pos].id] = "absent"

\* C36: the poll for the offer of one call holds up no call event of another
\* call: no activation of the listener polls for a call while a call event of
\* another call id stands behind it in its batch.
C36_WaitDelaysOwnCallOnly ==
    \A x \in EvHandlers :
        callEvents.h[x].pc = "poll" =>
            LET a == callEvents.h[x]
            IN  \A q \in (a.pos + 1)..Len(a.batch) : a.batch[q].id = a.batch[a.pos].id

\* ------------------------------------ one call from the offer to its end

\* One offer with its bridge, its accept flow, its SIP call and the ways the
\* call can end.
NextFailure ==
    \/ \E c \in OfferIds : Offer(c)
    \/ \E i \in Insts : BridgeListening(i)
    \/ \E i \in Insts : MakeCallAnswered(i)
    \/ \E i \in Insts : MakeCallFailed(i)
    \/ \E i \in Insts : MakeCallAuthRefused(i)
    \/ \E f \in AcceptFlows : AcceptSettled(f)
    \/ \E f \in AcceptFlows : AcceptSent(f)
    \/ \E f \in AcceptFlows : ReadySent(f)
    \/ \E f \in AcceptFlows : PreacceptFailed(f)
    \/ \E f \in AcceptFlows : AcceptFailed(f)
    \/ \E f \in AcceptFlows : ReadyFailed(f)
    \/ \E c \in OfferIds : StatusTimeout(c)
    \/ \E c \in OfferIds : StatusReject(c)
    \/ \E c \in OfferIds : StatusTerminate(c)
    \/ \E c \in OfferIds : EndCall(c)
    \/ \E c \in OfferIds : EndCallSent(c)

SpecFailure == InitAudio /\ [][NextFailure]_vars

\* What the gateway does by itself happens: the socket's 'listening' event, the
\* settling delay's timer, and the settling (one way or the other) of the
\* promise of a send.  Nothing makes the SIP server answer, the platform send a
\* status or the operator end a call.
SpecFailureFair ==
    /\ SpecFailure
    /\ \A i \in Insts : WF_vars(BridgeListening(i))
    /\ \A f \in AcceptFlows : WF_vars(AcceptSettled(f) \/ PreacceptFailed(f))
    /\ \A f \in AcceptFlows : WF_vars(AcceptSent(f) \/ AcceptFailed(f))
    /\ \A f \in AcceptFlows : WF_vars(ReadySent(f) \/ ReadyFailed(f))
    /\ \A c \in OfferIds : WF_vars(EndCallSent(c))

\* The bridge of instance i was torn down by the failure of its SIP call and by
\* nothing else: makeCall was rejected, 'bridge:ended' was emitted, no status of
\* the platform ended the call and endCall did not run for it
TornDownByOrigination(i) ==
    /\ mPc[i] = "failed"
    /\ emitted[i].ended > 0
    /\ lastStatus[inst[i]] = "offer"
    /\ inst[i] \in activeCalls
    /\ endPc[inst[i]] = 0

\* C34: a call that cannot be bridged never hangs silently: once the bridge of
\* a call was torn down because telephony origination failed and ACCEPT was
\* sent for the call, a REJECT or a TERMINATE is eventually sent for it
C34_NoSilentHang ==
    \A i \in Insts, c \in OfferIds :
        (inst[i] = c /\ TornDownByOrigination(i) /\ "accept" \in sent[c].ok)
            ~> (sent[c].n["reject"] > 0 \/ sent[c].n["terminate"] > 0)

\* C35: if the accept flow that bridgeCall started for a call raises (the send
\* of PREACCEPT or of ACCEPT fails), the bridge of that call is torn down: its
\* registry entry is gone at some later time
C35_AcceptFailureTearsDown ==
    \A f \in Insts, c \in OfferIds :
        (acc[f].pc = "threw" /\ acc[f].call = c) ~> (activeBridges[c] = 0)

\* The session of a call has ended: the platform reported reject, timeout or
\* terminate for it, or the gateway sent REJECT or TERMINATE for it, or the
\* call, once offered, has left activeCalls
SessionEnded(c) ==
    \/ lastStatus[c] \in {"reject", "timeout", "terminate"}
    \/ sent[c].n["reject"] > 0
    \/ sent[c].n["terminate"] > 0
    \/ offered(c) /\ c \notin activeCalls

\* C37: no PREACCEPT, ACCEPT or READY is sent for a call id after the session
\* of that call has ended, the end event arriving during the accept flow's
\* settling delay included
C37_NoAcceptAfterEnd ==
    [][\A c \in OfferIds, k \in {"preaccept", "accept", "ready"} :
          SessionEnded(c) => sent'[c].n[k] = sent[c].n[k]]_vars

\* The relay of instance i runs: its socket is bound or one of its timers is set
RelayRunning(i) ==
    \/ mediaBridge[i].udpSocket = "bound"
    \/ mediaBridge[i].keepAlive
    \/ mediaBridge[i].silenceInterval

\* C38: every media relay that was started and not stopped belongs to a bridge
\* that is in the registry: a relay with a bound socket or a live timer is the
\* relay of the registry entry of its call id
C38_RunningRelayRegistered ==
    \A i \in Insts : RelayRunning(i) => activeBridges[inst[i]] = i

\* C39: for each bridge 'bridge:created' is emitted at most once and never
\* after 'bridge:ended'; after 'bridge:ended' nothing more is started for the
\* bridge: no accept flow, no SIP call, no Binding Request
C39_NothingAfterEnded ==
    /\ [](\A i \in Insts : emitted[i].created <= 1)
    /\ [][\A i \in Insts :
            emitted[i].ended > 0 =>
                /\ emitted'[i].created = emitted[i].created
                /\ acc[i].pc = "idle" => acc'[i].pc = "idle"
                /\ mPc[i] = "idle" => mPc'[i] = "idle"
                /\ stunTx'[i] = stunTx[i]]_vars

\* C40: each offer causes exactly one RINGING and exactly one receipt for its
\* call id (one offer per call id here): neither is ever handed to the socket
\* twice, and once both offer paths are through each was sent once
C40_OneRingingOneReceipt ==
    \A i \in Insts : inst[i] # "" =>
        /\ sent[inst[i]].n["ringing"] <= 1
        /\ sent[inst[i]].n["receipt"] <= 1
        /\ (hPc[i] = "done" /\ wPc[i] = "done") =>
              sent[inst[i]].n["ringing"] = 1 /\ sent[inst[i]].n["receipt"] = 1

====
